---- MODULE Spec2Model ----
(***************************************************************************)
(* Sequential debate orchestrator of krjordan/quorum                       *)
(* (backend/app/services/sequential_debate_service.py and                  *)
(* backend/app/models/debate_v2.py).                                       *)
(*                                                                         *)
(* The service keeps a registry  debate id -> DebateV2 object.  Python     *)
(* objects are references: a NextTurn generator holds a reference to the   *)
(* object it read from the registry, Stop/Pause/Resume mutate the object   *)
(* the registry currently points to, and a committed turn replaces the     *)
(* registry entry by a fresh copy.  The heap makes that aliasing explicit. *)
(* A generator runs between suspension points (yield / await); each        *)
(* action below is one such segment.                                       *)
(***************************************************************************)
EXTENDS Integers, Sequences, FiniteSets, TLC

\* ---------------------------------------------------------------- bounds
MaxTurns == 4            \* committed turns explored per debate
MaxChunks == 2           \* provider deltas per streamed reply
MaxContradictions == 2   \* contradictions the detector returns for one utterance
MaxLoopRows == 2         \* rows of table conversation_loops
MaxContextTurns == 9     \* clean turns played before a context is built on its own
MaxHistory == 3          \* history messages of a context truncated on its own
MaxEmbeddings == 3       \* rows of message_embeddings searched for similar messages
MaxSeqLen == 12          \* longest recent_messages given to the Loop Detector on its own

\* the tallies of a debate saturate here
MaxCalls == MaxTurns + 2

\* ------------------------------------------------------ program constants
MessageOverhead == 4
ReplyPrimer == 2
LoopCheckInterval == 3
LoopWindow == 10
MinPatternLength == 2
MinRepetitions == 2
MaxPatternLength == 6
MinContextWindowRounds == 3
MaxContextTokens == 100000
SimilarityThreshold == 85

\* abstract sizes of the texts, in tokens: a role, the system prompt, the user
\* prompt skeleton, the "name: " prefix of a transcript line, a non-empty reply
RoleTokens == 1
SystemPromptTokens == 1
UserPromptTokens == 1
TranscriptLineTokens == 1
ReplyTokens == 1

\* a reply text is modelled by whether it is empty
EmptyText == "empty"
SomeText == "text"

Gpt == "gpt-4o"
Claude == "claude-3-5-sonnet-20241022"
Models == {Gpt, Claude}

\* participant lists offered to CreateDebate (model of each participant,
\* the participant's name is its index)
TwoParticipants == <<Gpt, Claude>>
ThreeParticipants == <<Claude, Gpt, Gpt>>

\* configurations offered to create_debate
Configs == [participants : {TwoParticipants, ThreeParticipants}, max_rounds : {1, 2}]

\* debate ids handed out by create_debate (uuid4 in the program), in this order
DebateIds == <<"debate_v2_a">>
RegistryIds == <<"debate_v2_a", "debate_v2_b">>

\* generator frames; SeqStreams are the ones used when NextTurn calls on a
\* debate do not overlap
Streams == {1, 2}
SeqStreams == {1}

\* a caller of get_debate that keeps the returned object in a local variable
Callers == {3}

\* DebateStatusV2
INITIALIZED == "initialized"
RUNNING == "running"
PAUSED == "paused"
STOPPED == "stopped"
COMPLETED == "completed"
ERROR == "error"
DebateStatusV2 == {INITIALIZED, RUNNING, PAUSED, STOPPED, COMPLETED, ERROR}

\* SequentialTurnEventType
DEBATE_START == "debate_start"
ROUND_START == "round_start"
PARTICIPANT_START == "participant_start"
CHUNK == "chunk"
PARTICIPANT_COMPLETE == "participant_complete"
ROUND_COMPLETE == "round_complete"
DEBATE_COMPLETE == "debate_complete"
COST_UPDATE == "cost_update"
QUALITY_UPDATE == "quality_update"
ERROR_EVENT == "error"

VARIABLES
    heap,       \* live DebateV2 objects: object reference -> object
    debates,    \* SequentialDebateService.debates: debate id -> object reference
    debate_to_conversation, \* SequentialDebateService.debate_to_conversation
    messages,   \* persisted Message rows (utterances), in insertion order
    gen,        \* per stream: the generator frame of get_next_turn_response
    events,     \* per stream: the events the running generator has yielded so far
    raised,     \* did the most recent service call raise
    counts,     \* per debate: tally of NextTurn invocations and events emitted
    message_embeddings, \* rows of table message_embeddings, in insertion order
    conversation_loops, \* rows of table conversation_loops, in insertion order
    last_call   \* the most recent call on EmbeddingService or LoopDetectionService

\* the state of the debate service, and the quality tables, which are followed
\* in QualityStoreSpec only
service_vars == <<heap, debates, debate_to_conversation, messages, gen, events, raised, counts>>
store_vars == <<message_embeddings, conversation_loops, last_call>>
vars == <<heap, debates, debate_to_conversation, messages, gen, events, raised, counts,
          message_embeddings, conversation_loops, last_call>>

\* ------------------------------------------------------------- helpers
EmptyMap == [m \in {} |-> 0]

RECURSIVE SumSeq(_)
SumSeq(s) == IF s = <<>> THEN 0 ELSE Head(s) + SumSeq(Tail(s))

\* dict[key] += n, creating the key at 0 first
AddTo(map, key, n) ==
    IF key \in DOMAIN map
    THEN [map EXCEPT ![key] = @ + n]
    ELSE [k \in (DOMAIN map) \cup {key} |-> IF k = key THEN n ELSE map[k]]

\* is_debate_complete comparing with >=: the last round is never played
is_debate_complete_OneRoundEarly(d) ==
    \/ d.stopped_manually
    \/ d.current_round >= d.config.max_rounds
    \/ d.status \in {COMPLETED, STOPPED, ERROR}

\* is_debate_complete without the status test
is_debate_complete_IgnoresStatus(d) ==
    \/ d.stopped_manually
    \/ d.current_round > d.config.max_rounds

\* DebateV2.is_debate_complete
is_debate_complete(d) ==
    \/ d.stopped_manually
    \/ d.current_round > d.config.max_rounds
    \/ d.status \in {COMPLETED, STOPPED, ERROR}

\* DebateV2.get_current_participant: index and model of the participant on turn
get_current_participant(d) == d.config.participants[d.current_turn + 1]

NumParticipants(d) == Len(d.config.participants)

\* the object the registry currently holds for a debate id
Registered(id) == heap[debates[id]]

\* object references: a fresh one, and the objects still referenced by the
\* registry or by a generator frame (the others are freed)
NewRef(h) ==
    CHOOSE n \in 1..(Cardinality(DOMAIN h) + 1) :
        n \notin DOMAIN h /\ \A m \in 1..(n - 1) : m \in DOMAIN h

Store(h, ref, d) == [r \in (DOMAIN h) \cup {ref} |-> IF r = ref THEN d ELSE h[r]]

Referenced(registry, frames) ==
    {registry[i] : i \in DOMAIN registry}
        \cup {frames[s].debate : s \in {x \in DOMAIN frames : frames[x].pc # "idle"}}

Collect(h, registry, frames) ==
    [r \in (DOMAIN h) \cap Referenced(registry, frames) |-> h[r]]

\* ---------------------------------------------------------------- frames
IdleFrame ==
    [pc |-> "idle", debate_id |-> "", debate |-> 0,
     participant |-> 0, model |-> "",
     current_round_num |-> 0, current_turn_index |-> 0,
     input_tokens |-> 0, accumulated_content |-> EmptyText, deltas |-> 0,
     chunks_after_stop |-> 0,
     output_tokens |-> 0,
     total_tokens |-> 0, cost |-> 0,
     sequence_number |-> 0, contradictions |-> 0, loop |-> FALSE]

\* tally of a debate: DebateStart events of its lifetime; while no Stop, Pause,
\* provider error or abandoned stream has disturbed it, also its NextTurn
\* invocations and its ParticipantComplete and DebateComplete events
NoCounts ==
    [calls |-> 0, debate_start |-> 0, participant_complete |-> 0,
     debate_complete |-> 0, disturbed |-> FALSE]

Disturbed(c) ==
    [c EXCEPT !.calls = 0, !.participant_complete = 0, !.debate_complete = 0,
              !.disturbed = TRUE]

NoCall == [op |-> "none"]

Tally(c, n) == IF c.disturbed THEN 0 ELSE IF n >= MaxCalls THEN MaxCalls ELSE n

\* SequentialDebateService.__init__: an empty registry, no stream open
ServiceInit ==
    /\ heap = [r \in {} |-> 0]
    /\ debates = [i \in {} |-> 0]
    /\ debate_to_conversation = [i \in {} |-> ""]
    /\ messages = <<>>
    /\ gen = [s \in Streams \cup Callers |-> IdleFrame]
    /\ events = [s \in Streams |-> <<>>]
    /\ raised = FALSE
    /\ counts = [i \in {} |-> NoCounts]

Init ==
    /\ ServiceInit
    /\ message_embeddings = <<>>
    /\ conversation_loops = <<>>
    /\ last_call = NoCall

\* ------------------------------------------------------ control operations
\* create_debate leaving out the first round (lines 65-70)
NewDebate_NoFirstRound(id, config) ==
    [id |-> id, config |-> config, status |-> INITIALIZED,
     rounds |-> <<>>,
     current_round |-> 1, current_turn |-> 0,
     total_tokens |-> EmptyMap, total_cost |-> 0,
     stopped_manually |-> FALSE]

\* SequentialDebateService.create_debate: the object it builds
NewDebate(id, config) ==
    [id |-> id, config |-> config, status |-> INITIALIZED,
     rounds |-> << [round_number |-> 1, responses |-> <<>>,
                    tokens_used |-> EmptyMap, cost_estimate |-> 0] >>,
     current_round |-> 1, current_turn |-> 0,
     total_tokens |-> EmptyMap, total_cost |-> 0,
     stopped_manually |-> FALSE]

\* with the identifiers that uuid4 (line 52) draws, in the order drawn
CreateWithIds(ids, config) ==
    /\ UNCHANGED store_vars
    /\ Cardinality(DOMAIN debates) < Len(ids)
    /\ LET id == ids[Cardinality(DOMAIN debates) + 1] IN
        /\ heap' = Store(heap, NewRef(heap), NewDebate(id, config))
        /\ debates' = [i \in (DOMAIN debates) \cup {id} |->
                          IF i = id THEN NewRef(heap) ELSE debates[i]]
        /\ counts' = [i \in (DOMAIN counts) \cup {id} |->
                          IF i = id THEN NoCounts ELSE counts[i]]
        /\ raised' = FALSE
    /\ UNCHANGED <<debate_to_conversation, messages, gen, events>>

create_debate(config) == CreateWithIds(DebateIds, config)

\* stop_debate without line 97
Stopped_StatusOnly(d) == [d EXCEPT !.status = STOPPED]

\* the object after stop_debate's assignments
Stopped(d) == [d EXCEPT !.status = STOPPED, !.stopped_manually = TRUE]

stop_debate(id) ==
    /\ UNCHANGED store_vars
    /\ id \in DOMAIN debates
    /\ heap' = [heap EXCEPT ![debates[id]] = Stopped(@)]
    /\ counts' = [counts EXCEPT ![id] = Disturbed(@)]
    /\ raised' = FALSE
    /\ UNCHANGED <<debates, debate_to_conversation, messages, gen, events>>

\* the object after pause_debate's assignments
Paused(d) == [d EXCEPT !.status = PAUSED]

pause_debate(id) ==
    /\ UNCHANGED store_vars
    /\ id \in DOMAIN debates
    /\ heap' = [heap EXCEPT ![debates[id]] = Paused(@)]
    /\ counts' = [counts EXCEPT ![id] = Disturbed(@)]
    /\ raised' = FALSE
    /\ UNCHANGED <<debates, debate_to_conversation, messages, gen, events>>

\* resume_debate without its state check
CanResume_Always(d) == TRUE

\* resume_debate's state check
CanResume(d) == d.status = PAUSED

resume_debate(id) ==
    /\ UNCHANGED store_vars
    /\ id \in DOMAIN debates
    /\ IF CanResume(Registered(id))
       THEN /\ heap' = [heap EXCEPT ![debates[id]].status = RUNNING]
            /\ raised' = FALSE
       ELSE /\ heap' = heap
            /\ raised' = TRUE
    /\ UNCHANGED <<debates, debate_to_conversation, messages, gen, events, counts>>

\* ------------------------------------------------------- token accounting
\* TokenCounter.count_tokens
count_tokens(content) == IF content = EmptyText THEN 0 ELSE ReplyTokens

\* the transcript lines _build_context_for_participant renders, as token counts
TranscriptTokens(d) ==
    [r \in 1..Len(d.rounds) |->
        SumSeq([k \in 1..Len(d.rounds[r].responses) |->
                    TranscriptLineTokens + count_tokens(d.rounds[r].responses[k].content)])]

\* TokenCounter.count_message_tokens over [system message, user message]
count_message_tokens(d) ==
    (MessageOverhead + RoleTokens + SystemPromptTokens)
    + (MessageOverhead + RoleTokens + UserPromptTokens + SumSeq(TranscriptTokens(d)))
    + ReplyPrimer

\* TokenCounter.PRICING in the order of the dict (lines 15-40), per 1M tokens
\* in thousandths of a dollar
PRICING ==
    <<[model_key |-> "gpt-4o", input |-> 2500, output |-> 10000],
       [model_key |-> "gpt-4o-mini", input |-> 150, output |-> 600],
       [model_key |-> "gpt-4-turbo", input |-> 10000, output |-> 30000],
       [model_key |-> "gpt-4", input |-> 30000, output |-> 60000],
       [model_key |-> "gpt-3.5-turbo", input |-> 500, output |-> 1500],
       [model_key |-> "claude-3-5-sonnet-20241022", input |-> 3000, output |-> 15000],
       [model_key |-> "claude-3-5-haiku-20241022", input |-> 800, output |-> 4000],
       [model_key |-> "claude-3-opus-20240229", input |-> 15000, output |-> 75000],
       [model_key |-> "claude-3-sonnet-20240229", input |-> 3000, output |-> 15000],
       [model_key |-> "claude-3-haiku-20240307", input |-> 250, output |-> 1250],
       [model_key |-> "gemini-1.5-pro", input |-> 1250, output |-> 5000],
       [model_key |-> "gemini-1.5-flash", input |-> 75, output |-> 300],
       [model_key |-> "gemini-pro", input |-> 500, output |-> 1500],
       [model_key |-> "mistral-large-latest", input |-> 2000, output |-> 6000],
       [model_key |-> "mistral-medium-latest", input |-> 2700, output |-> 8100],
       [model_key |-> "mistral-small-latest", input |-> 200, output |-> 600],
       [model_key |-> "open-mistral-7b", input |-> 250, output |-> 250]>>

\* the model identifiers costs are estimated for: the keys of PRICING, a key
\* in upper case, a dated variant and a model without pricing data; each with
\* its spelling, character by character
Spelling ==
    ("gpt-4o" :> <<"g", "p", "t", "-", "4", "o">>) @@
    ("gpt-4o-mini" :> <<"g", "p", "t", "-", "4", "o", "-", "m", "i", "n", "i">>) @@
    ("gpt-4-turbo" :> <<"g", "p", "t", "-", "4", "-", "t", "u", "r", "b", "o">>) @@
    ("gpt-4" :> <<"g", "p", "t", "-", "4">>) @@
    ("gpt-3.5-turbo" :> <<"g", "p", "t", "-", "3", ".", "5", "-", "t", "u", "r", "b", "o">>) @@
    ("claude-3-5-sonnet-20241022" :> <<"c", "l", "a", "u", "d", "e", "-", "3", "-", "5", "-", "s", "o", "n", "n", "e", "t", "-", "2", "0", "2", "4", "1", "0", "2", "2">>) @@
    ("claude-3-5-haiku-20241022" :> <<"c", "l", "a", "u", "d", "e", "-", "3", "-", "5", "-", "h", "a", "i", "k", "u", "-", "2", "0", "2", "4", "1", "0", "2", "2">>) @@
    ("claude-3-opus-20240229" :> <<"c", "l", "a", "u", "d", "e", "-", "3", "-", "o", "p", "u", "s", "-", "2", "0", "2", "4", "0", "2", "2", "9">>) @@
    ("claude-3-sonnet-20240229" :> <<"c", "l", "a", "u", "d", "e", "-", "3", "-", "s", "o", "n", "n", "e", "t", "-", "2", "0", "2", "4", "0", "2", "2", "9">>) @@
    ("claude-3-haiku-20240307" :> <<"c", "l", "a", "u", "d", "e", "-", "3", "-", "h", "a", "i", "k", "u", "-", "2", "0", "2", "4", "0", "3", "0", "7">>) @@
    ("gemini-1.5-pro" :> <<"g", "e", "m", "i", "n", "i", "-", "1", ".", "5", "-", "p", "r", "o">>) @@
    ("gemini-1.5-flash" :> <<"g", "e", "m", "i", "n", "i", "-", "1", ".", "5", "-", "f", "l", "a", "s", "h">>) @@
    ("gemini-pro" :> <<"g", "e", "m", "i", "n", "i", "-", "p", "r", "o">>) @@
    ("mistral-large-latest" :> <<"m", "i", "s", "t", "r", "a", "l", "-", "l", "a", "r", "g", "e", "-", "l", "a", "t", "e", "s", "t">>) @@
    ("mistral-medium-latest" :> <<"m", "i", "s", "t", "r", "a", "l", "-", "m", "e", "d", "i", "u", "m", "-", "l", "a", "t", "e", "s", "t">>) @@
    ("mistral-small-latest" :> <<"m", "i", "s", "t", "r", "a", "l", "-", "s", "m", "a", "l", "l", "-", "l", "a", "t", "e", "s", "t">>) @@
    ("open-mistral-7b" :> <<"o", "p", "e", "n", "-", "m", "i", "s", "t", "r", "a", "l", "-", "7", "b">>) @@
    ("GPT-4o-mini" :> <<"G", "P", "T", "-", "4", "o", "-", "m", "i", "n", "i">>) @@
    ("gpt-4o-2024-08-06" :> <<"g", "p", "t", "-", "4", "o", "-", "2", "0", "2", "4", "-", "0", "8", "-", "0", "6">>) @@
    ("llama-3-70b" :> <<"l", "l", "a", "m", "a", "-", "3", "-", "7", "0", "b">>)

ModelIds == DOMAIN Spelling

\* str.lower() over the letters that occur in upper case
LowerChar(c) == IF c = "G" THEN "g" ELSE IF c = "P" THEN "p" ELSE IF c = "T" THEN "t" ELSE c

Lower(chars) == [k \in 1..Len(chars) |-> LowerChar(chars[k])]

\* the operator "in" of two strings
IsSubstring(part, whole) ==
    \E i \in 0..(Len(whole) - Len(part)) :
        \A k \in 1..Len(part) : whole[i + k] = part[k]

\* the keys the test of line 130 accepts: model_key.lower() in model_lower
MatchingKeys(model) ==
    {i \in 1..Len(PRICING) :
        IsSubstring(Lower(Spelling[PRICING[i].model_key]), Lower(Spelling[model]))}

\* lines 128-136: the first key of the dict that is accepted, else the entry
\* of gpt-4o
PricingFor(model) ==
    IF MatchingKeys(model) = {}
    THEN PRICING[CHOOSE i \in 1..Len(PRICING) : PRICING[i].model_key = Gpt]
    ELSE PRICING[CHOOSE i \in MatchingKeys(model) : \A j \in MatchingKeys(model) : i <= j]

\* the pricing of every identifier
Pricings == [model \in ModelIds |-> PricingFor(model)]

\* TokenCounter.estimate_cost, in units of 1e-9 USD
estimate_cost(input_tokens, output_tokens, model) ==
    input_tokens * Pricings[model].input + output_tokens * Pricings[model].output

\* is_claude = "claude" in participant.model.lower()
is_claude(model) == model = Claude

\* ------------------------------------------------------------- events
Event(type, round_number, turn_index, data) ==
    [event_type |-> type, round_number |-> round_number,
     turn_index |-> turn_index, data |-> data]

\* events of the frame's turn carry the snapshot (current_round_num, current_turn_index)
TurnEvent(f, type, data) == Event(type, f.current_round_num, f.current_turn_index, data)

Emit(s, e) == events' = [events EXCEPT ![s] = Append(@, e)]

Counted(id, e) ==
    counts' = [counts EXCEPT
        ![id].participant_complete =
            Tally(counts[id], @ + (IF e.event_type = PARTICIPANT_COMPLETE THEN 1 ELSE 0)),
        ![id].debate_complete =
            Tally(counts[id], @ + (IF e.event_type = DEBATE_COMPLETE THEN 1 ELSE 0))]

\* line 433: sequence_number = sum(len(r.responses) for r in debate.rounds)
SequenceNumber(d) == SumSeq([r \in 1..Len(d.rounds) |-> Len(d.rounds[r].responses)])

\* exploration stops after MaxTurns committed turns of a debate
WithinBound(d) == is_debate_complete(d) \/ SequenceNumber(d) < MaxTurns

\* ------------------------------------------- get_next_turn_response, start
\* lines 237-254: select the participant, snapshot the pointers, ParticipantStart
SelectParticipant(f, d) ==
    [f EXCEPT !.pc = "yield_participant_start",
              !.participant = d.current_turn,
              !.model = get_current_participant(d),
              !.current_round_num = d.current_round,
              !.current_turn_index = d.current_turn]

ParticipantStartEvent(f) ==
    TurnEvent(f, PARTICIPANT_START,
              [participant_name |-> f.participant,
               participant_index |-> f.current_turn_index,
               model |-> f.model])

\* the DebateComplete answer for a debate that is already complete (lines 207-217)
AlreadyCompleteEvent(d) ==
    Event(DEBATE_COMPLETE, d.current_round, d.current_turn,
          [rounds_completed |-> Len(d.rounds),
           stopped_manually |-> d.stopped_manually])

\* the generator is created and run to its first yield (lines 201-254)
StartNextTurn(s, id) ==
    /\ UNCHANGED store_vars
    /\ gen[s].pc = "idle"
    /\ id \in DOMAIN debates
    /\ WithinBound(Registered(id))
    /\ LET ref == debates[id]
           d == heap[ref]
           f0 == [IdleFrame EXCEPT !.debate_id = id, !.debate = ref]
       IN
       IF is_debate_complete(d)
       THEN /\ gen' = [gen EXCEPT ![s] = [f0 EXCEPT !.pc = "yield_already_complete"]]
            /\ events' = [events EXCEPT ![s] = <<AlreadyCompleteEvent(d)>>]
            /\ counts' = [counts EXCEPT ![id].calls = Tally(counts[id], @ + 1),
                                         ![id].debate_complete = Tally(counts[id], @ + 1)]
            /\ heap' = heap
       ELSE IF d.status = INITIALIZED
       THEN /\ heap' = [heap EXCEPT ![ref].status = RUNNING]
            /\ gen' = [gen EXCEPT ![s] = [f0 EXCEPT !.pc = "yield_debate_start"]]
            /\ events' = [events EXCEPT ![s] =
                    <<Event(DEBATE_START, d.current_round, 0,
                            [participants |-> NumParticipants(d),
                             max_rounds |-> d.config.max_rounds])>>]
            /\ counts' = [counts EXCEPT ![id].calls = Tally(counts[id], @ + 1),
                                         ![id].debate_start = @ + 1]
       ELSE /\ gen' = [gen EXCEPT ![s] = SelectParticipant(f0, d)]
            /\ events' = [events EXCEPT ![s] = <<ParticipantStartEvent(SelectParticipant(f0, d))>>]
            /\ counts' = [counts EXCEPT ![id].calls = Tally(counts[id], @ + 1)]
            /\ heap' = heap
    /\ raised' = FALSE
    /\ UNCHANGED <<debates, debate_to_conversation, messages>>

\* resumed after the early DebateComplete: line 218, then return
FinishAlreadyComplete(s) ==
    /\ UNCHANGED store_vars
    /\ gen[s].pc = "yield_already_complete"
    /\ gen' = [gen EXCEPT ![s] = IdleFrame]
    /\ LET f == gen[s]
           d == heap[f.debate]
       IN heap' = Collect([heap EXCEPT ![f.debate].status =
                               IF d.stopped_manually THEN STOPPED ELSE COMPLETED],
                          debates, gen')
    /\ events' = [events EXCEPT ![s] = <<>>]
    /\ raised' = FALSE
    /\ UNCHANGED <<debates, debate_to_conversation, messages, counts>>

\* resumed after DebateStart: lines 237-254
AfterDebateStart(s) ==
    /\ UNCHANGED store_vars
    /\ gen[s].pc = "yield_debate_start"
    /\ LET f == SelectParticipant(gen[s], heap[gen[s].debate]) IN
        /\ gen' = [gen EXCEPT ![s] = f]
        /\ Emit(s, ParticipantStartEvent(f))
    /\ raised' = FALSE
    /\ UNCHANGED <<heap, debates, debate_to_conversation, messages, counts>>

\* resumed after ParticipantStart: build the context, count the input tokens
\* and call the provider (lines 257-290)
BuildContext(s) ==
    /\ UNCHANGED store_vars
    /\ gen[s].pc = "yield_participant_start"
    /\ gen' = [gen EXCEPT ![s].pc = "await_provider",
                          ![s].input_tokens = count_message_tokens(heap[gen[s].debate])]
    /\ raised' = FALSE
    /\ UNCHANGED <<heap, debates, debate_to_conversation, messages, events, counts>>

\* ------------------------------------ get_next_turn_response, the provider
\* observer: the Chunks of a reply that were emitted with the debate already
\* stopped by hand, counted while the provider loop runs
AfterStop(d, n) == IF d.stopped_manually THEN n + 1 ELSE n

\* the streaming provider yields one more delta (lines 290-304): accumulate,
\* recount, emit Chunk; the generator then waits for the next delta
ProviderDelta(s) ==
    /\ UNCHANGED store_vars
    /\ gen[s].pc = "await_provider"
    /\ ~is_claude(gen[s].model)
    /\ gen[s].deltas < MaxChunks
    /\ LET acc == SomeText IN
        /\ gen' = [gen EXCEPT ![s].accumulated_content = acc,
                              ![s].deltas = @ + 1,
                              ![s].chunks_after_stop =
                                  AfterStop(heap[gen[s].debate], @),
                              ![s].output_tokens = count_tokens(acc)]
        /\ Emit(s, TurnEvent(gen[s], CHUNK, [participant_name |-> gen[s].participant]))
    /\ raised' = FALSE
    /\ UNCHANGED <<heap, debates, debate_to_conversation, messages, counts>>

\* the provider call raises (lines 306-317): Error event, suspended at its yield
ProviderError(s) ==
    /\ UNCHANGED store_vars
    /\ gen[s].pc = "await_provider"
    /\ gen' = [gen EXCEPT ![s].pc = "yield_error"]
    /\ Emit(s, TurnEvent(gen[s], ERROR_EVENT, [participant_name |-> gen[s].participant]))
    /\ counts' = [counts EXCEPT ![gen[s].debate_id] = Disturbed(@)]
    /\ raised' = FALSE
    /\ UNCHANGED <<heap, debates, debate_to_conversation, messages>>

\* resumed after the Error event: lines 318-319
AfterProviderError(s) ==
    /\ UNCHANGED store_vars
    /\ gen[s].pc = "yield_error"
    /\ gen' = [gen EXCEPT ![s] = IdleFrame]
    /\ heap' = Collect([heap EXCEPT ![gen[s].debate].status = ERROR], debates, gen')
    /\ events' = [events EXCEPT ![s] = <<>>]
    /\ raised' = FALSE
    /\ UNCHANGED <<debates, debate_to_conversation, messages, counts>>

\* ---------------------------------------- get_next_turn_response, the commit
\* the append without line 347: the round's cost is not updated
WithResponse_NoRoundCost(d, f, total_tokens, cost) ==
    LET response == [participant_name |-> f.participant,
                     participant_index |-> f.current_turn_index,
                     model |-> f.model,
                     content |-> f.accumulated_content,
                     tokens_used |-> total_tokens]
    IN [d EXCEPT
          !.rounds[f.current_round_num].responses = Append(@, response),
          !.rounds[f.current_round_num].tokens_used = AddTo(@, f.model, total_tokens),
          !.total_tokens = AddTo(@, f.model, total_tokens),
          !.total_cost = @ + cost]

\* the append recording a participant_index that counts from one
WithResponse_OneBasedIndex(d, f, total_tokens, cost) ==
    LET response == [participant_name |-> f.participant,
                     participant_index |-> f.current_turn_index + 1,
                     model |-> f.model,
                     content |-> f.accumulated_content,
                     tokens_used |-> total_tokens]
    IN [d EXCEPT
          !.rounds[f.current_round_num].responses = Append(@, response),
          !.rounds[f.current_round_num].tokens_used = AddTo(@, f.model, total_tokens),
          !.rounds[f.current_round_num].cost_estimate = @ + cost,
          !.total_tokens = AddTo(@, f.model, total_tokens),
          !.total_cost = @ + cost]

\* lines 326-351: the Response is appended to the round of the object the
\* generator holds, and the token and cost totals are updated, in place
WithResponse(d, f, total_tokens, cost) ==
    LET response == [participant_name |-> f.participant,
                     participant_index |-> f.current_turn_index,
                     model |-> f.model,
                     content |-> f.accumulated_content,
                     tokens_used |-> total_tokens]
    IN [d EXCEPT
          !.rounds[f.current_round_num].responses = Append(@, response),
          !.rounds[f.current_round_num].tokens_used = AddTo(@, f.model, total_tokens),
          !.rounds[f.current_round_num].cost_estimate = @ + cost,
          !.total_tokens = AddTo(@, f.model, total_tokens),
          !.total_cost = @ + cost]

\* the wrap without line 365: the round number never grows
NextPointers_NoRoundAdvance(d) ==
    IF d.current_turn + 1 >= NumParticipants(d)
    THEN [current_turn |-> 0, current_round |-> d.current_round]
    ELSE [current_turn |-> d.current_turn + 1, current_round |-> d.current_round]

\* the advance without line 359: the turn index only ever wraps
NextPointers_TurnStuck(d) ==
    IF d.current_turn + 1 >= NumParticipants(d)
    THEN [current_turn |-> 0, current_round |-> d.current_round + 1]
    ELSE [current_turn |-> d.current_turn, current_round |-> d.current_round]

\* lines 358-365: the next (current_turn, current_round)
NextPointers(d) ==
    IF d.current_turn + 1 >= NumParticipants(d)
    THEN [current_turn |-> 0, current_round |-> d.current_round + 1]
    ELSE [current_turn |-> d.current_turn + 1, current_round |-> d.current_round]

\* the copy taken before the pointers are advanced
Advanced_Stale(d) == d

\* lines 367-386: the copy with the advanced pointers, and a new empty round
\* when the round number grew
Advanced(d) ==
    LET n == NextPointers(d)
        moved == [d EXCEPT !.current_turn = n.current_turn,
                           !.current_round = n.current_round]
    IN IF n.current_round > d.current_round
       THEN [moved EXCEPT !.rounds = Append(@,
                [round_number |-> n.current_round, responses |-> <<>>,
                 tokens_used |-> EmptyMap, cost_estimate |-> 0])]
       ELSE moved

\* lines 321-406 in one segment: metrics, append, advance, replace the registry
\* entry, ParticipantComplete
CommitTurn(s, f) ==
    LET total_tokens == f.input_tokens + f.output_tokens
        cost == estimate_cost(f.input_tokens, f.output_tokens, f.model)
        old == WithResponse(heap[f.debate], f, total_tokens, cost)
        updated_debate == Advanced(old)
        new_ref == NewRef(heap)
        e == TurnEvent(f, PARTICIPANT_COMPLETE,
                       [participant_name |-> f.participant,
                        tokens_used |-> total_tokens, cost |-> cost])
    IN
    /\ debates' = [debates EXCEPT ![f.debate_id] = new_ref]
    /\ gen' = [gen EXCEPT ![s] = [f EXCEPT !.pc = "yield_participant_complete",
                                           !.debate = new_ref,
                                           !.chunks_after_stop = 0,
                                           !.total_tokens = total_tokens,
                                           !.cost = cost]]
    /\ heap' = Collect(Store([heap EXCEPT ![f.debate] = old], new_ref, updated_debate),
                       debates', gen')
    /\ Emit(s, e)
    /\ Counted(f.debate_id, e)

\* the streaming provider is exhausted: the turn is committed
ProviderDone(s) ==
    /\ UNCHANGED store_vars
    /\ gen[s].pc = "await_provider"
    /\ ~is_claude(gen[s].model)
    /\ CommitTurn(s, gen[s])
    /\ raised' = FALSE
    /\ UNCHANGED <<debate_to_conversation, messages>>

\* get_completion returns the whole reply (lines 271-287): a non-empty reply
\* is emitted as one Chunk, an empty one goes straight to the commit
ClaudeCompletion(s, content) ==
    /\ UNCHANGED store_vars
    /\ gen[s].pc = "await_provider"
    /\ is_claude(gen[s].model)
    /\ LET f == [gen[s] EXCEPT !.accumulated_content = content,
                               !.output_tokens = count_tokens(content)]
       IN IF content # EmptyText
          THEN /\ gen' = [gen EXCEPT ![s] = [f EXCEPT !.pc = "yield_claude_chunk"]]
               /\ Emit(s, TurnEvent(f, CHUNK, [participant_name |-> f.participant]))
               /\ UNCHANGED <<heap, debates, counts>>
          ELSE CommitTurn(s, f)
    /\ raised' = FALSE
    /\ UNCHANGED <<debate_to_conversation, messages>>

\* resumed after Claude's single Chunk: the turn is committed
AfterClaudeChunk(s) ==
    /\ UNCHANGED store_vars
    /\ gen[s].pc = "yield_claude_chunk"
    /\ CommitTurn(s, gen[s])
    /\ raised' = FALSE
    /\ UNCHANGED <<debate_to_conversation, messages>>

\* ------------------------------ get_next_turn_response, quality integration
\* lines 505 and 509: the loop check runs on these sequence numbers ...
LoopCheckDue(sequence_number) ==
    sequence_number > 0 /\ sequence_number % LoopCheckInterval = 0

\* ... over the agent names of current_round.responses[-10:]
LastN(seq, n) == IF Len(seq) <= n THEN seq ELSE SubSeq(seq, Len(seq) - n + 1, Len(seq))

LoopCheckInput(d, f) ==
    LET rs == LastN(d.rounds[f.current_round_num].responses, LoopWindow)
    IN [k \in 1..Len(rs) |-> rs[k].participant_name]

\* LoopDetectionService._detect_pattern_repetition: does some window of this
\* length occur min_repetitions times
PatternRepeats(agent_sequence, pattern_length) ==
    /\ Len(agent_sequence) >= pattern_length * MinRepetitions
    /\ \E i \in 1..(Len(agent_sequence) - pattern_length + 1) :
          Cardinality({j \in 1..(Len(agent_sequence) - pattern_length + 1) :
              SubSeq(agent_sequence, j, j + pattern_length - 1)
                  = SubSeq(agent_sequence, i, i + pattern_length - 1)}) >= MinRepetitions

\* LoopDetectionService.detect_loops: is a loop returned
detect_loops(agent_sequence) ==
    /\ Len(agent_sequence) >= MinPatternLength * MinRepetitions
    /\ \E L \in MinPatternLength..MaxPatternLength :
          /\ L <= Len(agent_sequence) \div 2
          /\ PatternRepeats(agent_sequence, L)

\* the contradiction check leaving the pipeline past CostUpdate
AfterContradictionsPc_SkipsCost(f) == "yield_cost_update"

\* the pipeline step that follows the contradiction check (line 505)
AfterContradictionsPc(f) ==
    IF LoopCheckDue(f.sequence_number) THEN "await_loops" ELSE "await_health"

QualityErrorEvent(f) == TurnEvent(f, ERROR_EVENT, [non_critical |-> TRUE])

CostUpdateEvent(f, d) ==
    TurnEvent(f, COST_UPDATE,
              [total_cost |-> d.total_cost,
               round_cost |-> d.rounds[f.current_round_num].cost_estimate,
               total_tokens |-> d.total_tokens])

\* resumed after ParticipantComplete: session, conversation row, Message row
\* (lines 410-451).  outcome: "stored", or the session / conversation insert
\* raised ("session_failed"), or the Message insert raised ("insert_failed");
\* a raise lands in the outer handler (lines 589-602)
PersistUtterance(s, outcome) ==
    /\ UNCHANGED store_vars
    /\ gen[s].pc = "yield_participant_complete"
    /\ LET f == gen[s]
           d == heap[f.debate]
           id == f.debate_id
           sequence_number == SequenceNumber(d)
           conversation == [i \in (DOMAIN debate_to_conversation) \cup {id} |->
                               IF i \in DOMAIN debate_to_conversation
                               THEN debate_to_conversation[i] ELSE id]
       IN
       /\ debate_to_conversation' =
             IF outcome = "session_failed" THEN debate_to_conversation ELSE conversation
       /\ IF outcome = "stored"
          THEN /\ messages' = Append(messages,
                      [conversation_id |-> conversation[id],
                       agent_name |-> f.participant,
                       sequence_number |-> sequence_number,
                       round_number |-> f.current_round_num,
                       turn_index |-> f.current_turn_index])
               /\ gen' = [gen EXCEPT ![s].pc = "await_contradictions",
                                     ![s].sequence_number = sequence_number]
               /\ events' = events
          ELSE /\ messages' = messages
               /\ gen' = [gen EXCEPT ![s].pc = "yield_quality_error"]
               /\ Emit(s, QualityErrorEvent(f))
    /\ raised' = FALSE
    /\ UNCHANGED <<heap, debates, counts>>

\* embedding and contradiction check (lines 453-503): the detector returns n
\* contradictions (a raise is caught and leaves none).  With one or more, the
\* first QualityUpdate is built from contradiction.id (line 495), an attribute
\* the Contradiction class (contradiction_service.py lines 20-41) does not
\* have: the AttributeError is caught at line 501 and nothing is yielded
DetectContradictions(s, n) ==
    /\ UNCHANGED store_vars
    /\ gen[s].pc = "await_contradictions"
    /\ gen' = [gen EXCEPT ![s].contradictions = n,
                          ![s].pc = AfterContradictionsPc(gen[s])]
    /\ events' = events
    /\ raised' = FALSE
    /\ UNCHANGED <<heap, debates, debate_to_conversation, messages, counts>>

\* loop check (lines 505-537); stored = FALSE: the detector raised while
\* storing the loop, which is caught.  A returned loop is reported from
\* loop.id (line 531), an attribute the ConversationLoop class
\* (loop_detection_service.py lines 21-42) does not have: the AttributeError
\* is caught at line 536 and nothing is yielded
CheckLoops(s, stored) ==
    /\ UNCHANGED store_vars
    /\ gen[s].pc = "await_loops"
    /\ gen' = [gen EXCEPT ![s].pc = "await_health",
                          ![s].loop = stored /\ detect_loops(LoopCheckInput(heap[gen[s].debate], gen[s]))]
    /\ events' = events
    /\ raised' = FALSE
    /\ UNCHANGED <<heap, debates, debate_to_conversation, messages, counts>>

\* health score (lines 539-587); scored = FALSE: the scorer raised, caught
ScoreHealth(s, scored) ==
    /\ UNCHANGED store_vars
    /\ gen[s].pc = "await_health"
    /\ gen' = [gen EXCEPT ![s].pc = "await_session_close"]
    /\ IF scored
       THEN Emit(s, TurnEvent(gen[s], QUALITY_UPDATE, [quality_type |-> "health_score"]))
       ELSE events' = events
    /\ raised' = FALSE
    /\ UNCHANGED <<heap, debates, debate_to_conversation, messages, counts>>

\* leaving get_async_session (database.py line 121): the final commit either
\* passes, and CostUpdate is emitted (lines 605-617), or raises into the
\* outer handler (lines 589-602)
CloseSession(s, closed) ==
    /\ UNCHANGED store_vars
    /\ gen[s].pc = "await_session_close"
    /\ IF closed
       THEN /\ gen' = [gen EXCEPT ![s].pc = "yield_cost_update"]
            /\ Emit(s, CostUpdateEvent(gen[s], heap[gen[s].debate]))
       ELSE /\ gen' = [gen EXCEPT ![s].pc = "yield_quality_error"]
            /\ Emit(s, QualityErrorEvent(gen[s]))
    /\ raised' = FALSE
    /\ UNCHANGED <<heap, debates, debate_to_conversation, messages, counts>>

\* the outer handler ending the stream after its Error event
AfterQualityError_Aborts(s) ==
    /\ UNCHANGED store_vars
    /\ gen[s].pc = "yield_quality_error"
    /\ gen' = [gen EXCEPT ![s] = IdleFrame]
    /\ heap' = Collect(heap, debates, gen')
    /\ events' = [events EXCEPT ![s] = <<>>]
    /\ raised' = FALSE
    /\ UNCHANGED <<debates, debate_to_conversation, messages, counts>>

\* resumed after the non-critical Error event: CostUpdate (lines 605-617)
AfterQualityError(s) ==
    /\ UNCHANGED store_vars
    /\ gen[s].pc = "yield_quality_error"
    /\ gen' = [gen EXCEPT ![s].pc = "yield_cost_update"]
    /\ Emit(s, CostUpdateEvent(gen[s], heap[gen[s].debate]))
    /\ raised' = FALSE
    /\ UNCHANGED <<heap, debates, debate_to_conversation, messages, counts>>

\* ------------------------------------- get_next_turn_response, round and end
\* the completion check reached again after DebateComplete
FinalCheck_Twice(s) ==
    LET f == gen[s]
        d == heap[f.debate]
        e == Event(DEBATE_COMPLETE, d.current_round, 0,
                   [rounds_completed |-> Len(d.rounds), total_cost |-> d.total_cost])
    IN
    /\ IF is_debate_complete(d)
       THEN /\ gen' = [gen EXCEPT ![s].pc = "yield_round_start"]
            /\ Emit(s, e)
            /\ Counted(f.debate_id, e)
       ELSE /\ gen' = [gen EXCEPT ![s] = IdleFrame]
            /\ events' = [events EXCEPT ![s] = <<>>]
            /\ UNCHANGED counts
    /\ heap' = Collect(heap, debates, gen')

\* lines 649-661: DebateComplete when the debate is now complete, else return
FinalCheck(s) ==
    LET f == gen[s]
        d == heap[f.debate]
        e == Event(DEBATE_COMPLETE, d.current_round, 0,
                   [rounds_completed |-> Len(d.rounds), total_cost |-> d.total_cost])
    IN
    /\ IF is_debate_complete(d)
       THEN /\ gen' = [gen EXCEPT ![s].pc = "yield_debate_complete"]
            /\ Emit(s, e)
            /\ Counted(f.debate_id, e)
       ELSE /\ gen' = [gen EXCEPT ![s] = IdleFrame]
            /\ events' = [events EXCEPT ![s] = <<>>]
            /\ UNCHANGED counts
    /\ heap' = Collect(heap, debates, gen')

\* every committed turn taken to have closed its round
RoundJustCompleted_Always(d, f) == TRUE

\* line 620: did the committed turn close its round
RoundJustCompleted(d, f) == d.current_turn = 0 /\ d.current_round > f.current_round_num

\* resumed after CostUpdate (lines 619-632, else on to line 650)
AfterCostUpdate(s) ==
    /\ UNCHANGED store_vars
    /\ gen[s].pc = "yield_cost_update"
    /\ LET f == gen[s]
           d == heap[f.debate]
       IN IF RoundJustCompleted(d, f)
          THEN /\ gen' = [gen EXCEPT ![s].pc = "yield_round_complete"]
               /\ Emit(s, Event(ROUND_COMPLETE, f.current_round_num, 0,
                        [round_number |-> f.current_round_num,
                         responses_count |-> Len(d.rounds[f.current_round_num].responses),
                         round_cost |-> d.rounds[f.current_round_num].cost_estimate]))
               /\ UNCHANGED <<heap, counts>>
          ELSE FinalCheck(s)
    /\ raised' = FALSE
    /\ UNCHANGED <<debates, debate_to_conversation, messages>>

\* resumed after RoundComplete (lines 634-645, else on to line 650)
AfterRoundComplete(s) ==
    /\ UNCHANGED store_vars
    /\ gen[s].pc = "yield_round_complete"
    /\ LET d == heap[gen[s].debate]
       IN IF ~is_debate_complete(d)
          THEN /\ gen' = [gen EXCEPT ![s].pc = "yield_round_start"]
               /\ Emit(s, Event(ROUND_START, d.current_round, 0,
                        [round_number |-> d.current_round,
                         max_rounds |-> d.config.max_rounds]))
               /\ UNCHANGED <<heap, counts>>
          ELSE FinalCheck(s)
    /\ raised' = FALSE
    /\ UNCHANGED <<debates, debate_to_conversation, messages>>

\* resumed after RoundStart (line 650)
AfterRoundStart(s) ==
    /\ UNCHANGED store_vars
    /\ gen[s].pc = "yield_round_start"
    /\ FinalCheck(s)
    /\ raised' = FALSE
    /\ UNCHANGED <<debates, debate_to_conversation, messages>>

\* resumed after the closing DebateComplete: line 662, then the generator ends
AfterDebateComplete(s) ==
    /\ UNCHANGED store_vars
    /\ gen[s].pc = "yield_debate_complete"
    /\ gen' = [gen EXCEPT ![s] = IdleFrame]
    /\ heap' = Collect([heap EXCEPT ![gen[s].debate].status = COMPLETED], debates, gen')
    /\ events' = [events EXCEPT ![s] = <<>>]
    /\ raised' = FALSE
    /\ UNCHANGED <<debates, debate_to_conversation, messages, counts>>

\* the subscriber closes the stream while the generator is suspended
\* (debate_v2.py lines 94-97: the generator is closed with the response)
Abandon(s) ==
    /\ UNCHANGED store_vars
    /\ gen[s].pc # "idle"
    /\ gen' = [gen EXCEPT ![s] = IdleFrame]
    /\ heap' = Collect(heap, debates, gen')
    /\ counts' = [counts EXCEPT ![gen[s].debate_id] = Disturbed(@)]
    /\ events' = [events EXCEPT ![s] = <<>>]
    /\ raised' = FALSE
    /\ UNCHANGED <<debates, debate_to_conversation, messages>>

\* ------------------------------------------------------------ specification
StreamStep(s) ==
    \/ \E id \in DOMAIN debates : StartNextTurn(s, id)
    \/ FinishAlreadyComplete(s)
    \/ AfterDebateStart(s)
    \/ BuildContext(s)
    \/ ProviderDelta(s)
    \/ ProviderError(s)
    \/ AfterProviderError(s)
    \/ ProviderDone(s)
    \/ \E content \in {EmptyText, SomeText} : ClaudeCompletion(s, content)
    \/ AfterClaudeChunk(s)
    \/ \E outcome \in {"stored", "session_failed", "insert_failed"} : PersistUtterance(s, outcome)
    \/ \E n \in 0..MaxContradictions : DetectContradictions(s, n)
    \/ \E stored \in BOOLEAN : CheckLoops(s, stored)
    \/ \E scored \in BOOLEAN : ScoreHealth(s, scored)
    \/ \E closed \in BOOLEAN : CloseSession(s, closed)
    \/ AfterQualityError(s)
    \/ AfterCostUpdate(s)
    \/ AfterRoundComplete(s)
    \/ AfterRoundStart(s)
    \/ AfterDebateComplete(s)
    \/ Abandon(s)

Control ==
    \/ \E config \in Configs : create_debate(config)
    \/ \E id \in DOMAIN debates : stop_debate(id)
    \/ \E id \in DOMAIN debates : pause_debate(id)
    \/ \E id \in DOMAIN debates : resume_debate(id)

Next == Control \/ \E s \in SeqStreams : StreamStep(s)

Spec == Init /\ [][Next]_vars

\* the steps a generator takes on its own once the subscriber asks for the next
\* event: all but the ones that wait for the provider to deliver, finish or
\* fail
DriverStep(s) ==
    \/ FinishAlreadyComplete(s)
    \/ AfterDebateStart(s)
    \/ BuildContext(s)
    \/ AfterProviderError(s)
    \/ AfterClaudeChunk(s)
    \/ \E outcome \in {"stored", "session_failed", "insert_failed"} : PersistUtterance(s, outcome)
    \/ \E n \in 0..MaxContradictions : DetectContradictions(s, n)
    \/ \E stored \in BOOLEAN : CheckLoops(s, stored)
    \/ \E scored \in BOOLEAN : ScoreHealth(s, scored)
    \/ \E closed \in BOOLEAN : CloseSession(s, closed)
    \/ AfterQualityError(s)
    \/ AfterCostUpdate(s)
    \/ AfterRoundComplete(s)
    \/ AfterRoundStart(s)
    \/ AfterDebateComplete(s)

\* the subscriber keeps consuming and the event loop keeps scheduling the
\* generator; nothing obliges the provider to answer
LiveSpec == Spec /\ \A s \in SeqStreams : WF_vars(DriverStep(s))

\* positions of a generator after the commit of its turn
PostCommitPcs ==
    {"yield_participant_complete", "await_contradictions",
     "await_loops", "await_health", "await_session_close", "yield_quality_error",
     "yield_cost_update", "yield_round_complete", "yield_round_start",
     "yield_debate_complete"}

\* ------------------------------------------- the registry with two debates
\* the control operations alone, on a service that creates up to two debates
RegistryNext ==
    \/ \E config \in Configs : CreateWithIds(RegistryIds, config)
    \/ \E id \in DOMAIN debates : stop_debate(id)
    \/ \E id \in DOMAIN debates : pause_debate(id)
    \/ \E id \in DOMAIN debates : resume_debate(id)

RegistrySpec == Init /\ [][RegistryNext]_vars

\* --------------------------------------- a caller holding a returned object
\* SequentialDebateService.get_debate, called while a turn of the debate is
\* running and not yet committed: the caller keeps the object it was handed
get_debate(c, id) ==
    /\ UNCHANGED store_vars
    /\ gen[c].pc = "idle"
    /\ id \in DOMAIN debates
    /\ \E s \in SeqStreams :
          gen[s].debate_id = id /\ gen[s].pc \notin PostCommitPcs \cup {"idle"}
    /\ gen' = [gen EXCEPT ![c] = [IdleFrame EXCEPT !.pc = "holding", !.debate_id = id,
                                                   !.debate = debates[id]]]
    /\ raised' = FALSE
    /\ UNCHANGED <<heap, debates, debate_to_conversation, messages, events, counts>>

\* the caller lets go of the object
Release(c) ==
    /\ UNCHANGED store_vars
    /\ gen[c].pc = "holding"
    /\ gen' = [gen EXCEPT ![c] = IdleFrame]
    /\ heap' = Collect(heap, debates, gen')
    /\ raised' = FALSE
    /\ UNCHANGED <<debates, debate_to_conversation, messages, events, counts>>

Holding == \E c \in Callers : gen[c].pc = "holding"

\* the service with such a caller beside the stream; the caller looks at its
\* object no later than the ParticipantComplete of the turn it overlapped
SnapshotNext ==
    \/ Control
    \/ \E s \in SeqStreams :
          (Holding => gen[s].pc \notin PostCommitPcs \cup {"idle"}) /\ StreamStep(s)
    \/ \E c \in Callers, id \in DOMAIN debates : get_debate(c, id)
    \/ \E c \in Callers : Release(c)

SnapshotSpec == Init /\ [][SnapshotNext]_vars

\* ------------------------------------------------------ the quality tables
\* message ids, embedding vectors and agent names the services are called with
MessageIds == {"msg_a", "msg_b"}
Vectors == {"v1", "v2"}
Agents == {"A", "B"}

\* recent_messages handed to the Loop Detector, as their agent names: every
\* sequence of two and of four utterances
RecentInputs == UNION {[1..n -> Agents] : n \in {2, 4}}

\* the INSERT of store_embedding without its ON CONFLICT clause
StoredEmbedding_NoConflictClause(rows, message_id, embedding) ==
    Append(rows, [message_id |-> message_id, embedding_vector |-> embedding])

\* the table after INSERT ... ON CONFLICT (message_id) DO NOTHING (lines
\* 134-155)
StoredEmbedding(rows, message_id, embedding) ==
    IF \E i \in 1..Len(rows) : rows[i].message_id = message_id
    THEN rows
    ELSE Append(rows, [message_id |-> message_id, embedding_vector |-> embedding])

\* EmbeddingService.store_embedding, as called by the orchestrator (line 456)
\* and again by the Contradiction Detector (contradiction_service.py line 95);
\* executed = FALSE: the statement or the commit raises, the transaction is
\* rolled back and the exception raised again (lines 174-177)
store_embedding(message_id, embedding, executed) ==
    /\ message_embeddings' =
          IF executed THEN StoredEmbedding(message_embeddings, message_id, embedding)
          ELSE message_embeddings
    /\ last_call' = [op |-> "store_embedding", message_id |-> message_id,
                     embedding |-> embedding, raised |-> ~executed]
    /\ UNCHANGED conversation_loops
    /\ UNCHANGED service_vars

\* _detect_pattern_repetition, lines 150-160: the windows of a length, how
\* often the window at i occurs, and the first of Counter.most_common(): the
\* most frequent window, the earliest one on ties
Window(agent_sequence, i, pattern_length) ==
    SubSeq(agent_sequence, i, i + pattern_length - 1)

Occurrences(agent_sequence, i, pattern_length) ==
    Cardinality({j \in 1..(Len(agent_sequence) - pattern_length + 1) :
        Window(agent_sequence, j, pattern_length) = Window(agent_sequence, i, pattern_length)})

\* Counter.most_common() with the tie of equal counts resolved the other way
MostCommon_LatestOnTies(agent_sequence, pattern_length) ==
    CHOOSE i \in 1..(Len(agent_sequence) - pattern_length + 1) :
        \A j \in 1..(Len(agent_sequence) - pattern_length + 1) :
            /\ Occurrences(agent_sequence, j, pattern_length)
                  <= Occurrences(agent_sequence, i, pattern_length)
            /\ Occurrences(agent_sequence, j, pattern_length)
                  = Occurrences(agent_sequence, i, pattern_length) => j <= i

MostCommon(agent_sequence, pattern_length) ==
    CHOOSE i \in 1..(Len(agent_sequence) - pattern_length + 1) :
        \A j \in 1..(Len(agent_sequence) - pattern_length + 1) :
            /\ Occurrences(agent_sequence, j, pattern_length)
                  <= Occurrences(agent_sequence, i, pattern_length)
            /\ Occurrences(agent_sequence, j, pattern_length)
                  = Occurrences(agent_sequence, i, pattern_length) => i <= j

\* detect_loops returning None
NoLoop == [conversation_id |-> "none"]

\* lines 166-174: message_ids, filled occurrence by occurrence (idx running
\* over the windows in order), each occurrence adding the ids of all its
\* pattern_length messages; message k of recent_messages has id k
RECURSIVE MessageIdsFrom(_, _, _, _)
MessageIdsFrom(agent_sequence, i, pattern_length, idx) ==
    IF idx > Len(agent_sequence) - pattern_length + 1 THEN <<>>
    ELSE (IF Window(agent_sequence, idx, pattern_length)
                = Window(agent_sequence, i, pattern_length)
          THEN [offset \in 1..pattern_length |-> idx + offset - 1]
          ELSE <<>>)
         \o MessageIdsFrom(agent_sequence, i, pattern_length, idx + 1)

\* _detect_pattern_repetition for one pattern length (lines 146-201): the
\* first entry of most_common() is taken when it has min_repetitions
\* occurrences; no other entry can have them when the first has not
detect_pattern_repetition(conversation_id, agent_sequence, pattern_length) ==
    IF Len(agent_sequence) < pattern_length * MinRepetitions THEN NoLoop
    ELSE LET i == MostCommon(agent_sequence, pattern_length)
         IN IF Occurrences(agent_sequence, i, pattern_length) >= MinRepetitions
            THEN [conversation_id |-> conversation_id,
                  pattern |-> Window(agent_sequence, i, pattern_length),
                  message_ids |-> MessageIdsFrom(agent_sequence, i, pattern_length, 1),
                  repetition_count |-> Occurrences(agent_sequence, i, pattern_length)]
            ELSE NoLoop

\* the for loop of detect_loops (lines 98-117): pattern lengths from the
\* longest down to min_pattern_length, the first loop found is returned
RECURSIVE LoopFrom(_, _, _)
LoopFrom(conversation_id, agent_sequence, pattern_length) ==
    IF pattern_length < MinPatternLength THEN NoLoop
    ELSE LET loop == detect_pattern_repetition(conversation_id, agent_sequence,
                                               pattern_length)
         IN IF loop # NoLoop THEN loop
            ELSE LoopFrom(conversation_id, agent_sequence, pattern_length - 1)

\* what detect_loops returns (lines 87-119), NoLoop for None
DetectedLoop(conversation_id, agent_sequence) ==
    IF Len(agent_sequence) < MinPatternLength * MinRepetitions THEN NoLoop
    ELSE LoopFrom(conversation_id, agent_sequence,
                  IF Len(agent_sequence) \div 2 < MaxPatternLength
                  THEN Len(agent_sequence) \div 2 ELSE MaxPatternLength)

\* LoopDetectionService.detect_loops on a conversation: a detected loop is
\* stored by _store_loop (lines 289-345), a plain INSERT, before it is
\* returned; stored = FALSE: the insert raises and so does detect_loops
RunLoopDetector(conversation_id, recent_messages, stored) ==
    LET loop == DetectedLoop(conversation_id, recent_messages)
    IN /\ Len(conversation_loops) < MaxLoopRows
       /\ conversation_loops' =
             IF loop # NoLoop /\ stored
             THEN Append(conversation_loops, loop)
             ELSE conversation_loops
       /\ last_call' = [op |-> "detect_loops", conversation_id |-> conversation_id,
                        recent_messages |-> recent_messages,
                        returned |-> IF stored THEN loop ELSE NoLoop,
                        raised |-> loop # NoLoop /\ ~stored]
       /\ UNCHANGED message_embeddings
       /\ UNCHANGED service_vars

StoreNext ==
    \/ \E message_id \in MessageIds, embedding \in Vectors, executed \in BOOLEAN :
          store_embedding(message_id, embedding, executed)
    \/ \E recent_messages \in RecentInputs, stored \in BOOLEAN :
          RunLoopDetector(DebateIds[1], recent_messages, stored)

QualityStoreSpec == Init /\ [][StoreNext]_vars

\* ------------------------------------------- the Loop Detector on its own
\* detect_loops applied once to every sequence of up to MaxSeqLen agent names
LoopInputs == UNION {[1..n -> Agents] : n \in 0..MaxSeqLen}

PatternInit ==
    /\ ServiceInit
    /\ message_embeddings = <<>>
    /\ conversation_loops = <<>>
    /\ last_call \in {[op |-> "recent_messages", recent_messages |-> m] : m \in LoopInputs}

DetectRecent(stored) ==
    /\ last_call.op = "recent_messages"
    /\ RunLoopDetector(DebateIds[1], last_call.recent_messages, stored)

PatternNext == \E stored \in BOOLEAN : DetectRecent(stored)

PatternSpec == PatternInit /\ [][PatternNext]_vars

\* ------------------------------------- the context of a turn, on its own
\* lines 164-167: transcript_lines, one line per response of every round of
\* debate.rounds, in order
RECURSIVE transcript_lines(_, _)
transcript_lines(d, r) ==
    IF r > Len(d.rounds) THEN <<>>
    ELSE [k \in 1..Len(d.rounds[r].responses) |->
             [round_number |-> d.rounds[r].round_number,
              participant_name |-> d.rounds[r].responses[k].participant_name,
              content |-> d.rounds[r].responses[k].content]]
         \o transcript_lines(d, r + 1)

\* a debate of two participants over five rounds with the smallest
\* context_window_rounds DebateConfigV2 admits
ContextConfigs ==
    [participants : {TwoParticipants}, max_rounds : {5},
     context_window_rounds : {MinContextWindowRounds}]

\* the debate object after one more clean turn with this reply: the frame of
\* lines 237-262, the metrics of lines 321-324, the commit of lines 326-386
TurnCommitted(d, content) ==
    LET f == [SelectParticipant(IdleFrame, d) EXCEPT
                 !.accumulated_content = content,
                 !.input_tokens = count_message_tokens(d),
                 !.output_tokens = count_tokens(content)]
    IN Advanced(WithResponse([d EXCEPT !.status = RUNNING], f,
                             f.input_tokens + f.output_tokens,
                             estimate_cost(f.input_tokens, f.output_tokens, f.model)))

\* the debate object after clean turns with these replies
RECURSIVE Played(_, _)
Played(d, contents) ==
    IF contents = <<>> THEN d
    ELSE Played(TurnCommitted(d, Head(contents)), Tail(contents))

\* the registry holds one debate that has run up to MaxContextTurns clean turns
ContextInit ==
    /\ \E config \in ContextConfigs, n \in 0..MaxContextTurns :
          \E contents \in [1..n -> {EmptyText, SomeText}] :
              /\ heap = [r \in {1} |-> Played(NewDebate(DebateIds[1], config), contents)]
              /\ debates = [i \in {DebateIds[1]} |-> 1]
    /\ counts = [i \in {DebateIds[1]} |-> Disturbed(NoCounts)]
    /\ debate_to_conversation = [i \in {} |-> ""]
    /\ messages = <<>>
    /\ gen = [s \in Streams \cup Callers |-> IdleFrame]
    /\ events = [s \in Streams |-> <<>>]
    /\ raised = FALSE
    /\ message_embeddings = <<>>
    /\ conversation_loops = <<>>
    /\ last_call = NoCall

\* line 257 of a NextTurn on a debate that is not complete:
\* _build_context_for_participant(debate, participant) and the token count of
\* its result (line 262)
build_context_for_participant(id) ==
    /\ last_call = NoCall
    /\ ~is_debate_complete(Registered(id))
    /\ last_call' = [op |-> "_build_context_for_participant", debate_id |-> id,
                     transcript |-> transcript_lines(Registered(id), 1),
                     input_tokens |-> count_message_tokens(Registered(id))]
    /\ UNCHANGED <<message_embeddings, conversation_loops>>
    /\ UNCHANGED service_vars

ContextNext == \E id \in DOMAIN debates : build_context_for_participant(id)

ContextSpec == ContextInit /\ [][ContextNext]_vars

\* -------------------------------------- ContextManager, token truncation
\* TokenCounter.count_message_tokens over a message list (lines 93-104): each
\* message costs the overhead, its role and its content; the reply primer is
\* added once. A message is modelled by its role and its content's token count
RECURSIVE CountMessageTokens(_)
CountMessageTokens(msgs) ==
    IF msgs = <<>> THEN ReplyPrimer
    ELSE MessageOverhead + RoleTokens + Head(msgs).tokens + CountMessageTokens(Tail(msgs))

\* the while loop of _truncate_context popping the newest message instead
RECURSIVE DropUntilFits_DropsNewest(_, _, _)
DropUntilFits_DropsNewest(system_msg, middle_messages, current_prompt) ==
    IF middle_messages = <<>> THEN <<system_msg, current_prompt>>
    ELSE IF CountMessageTokens(<<system_msg>> \o middle_messages \o <<current_prompt>>)
               <= MaxContextTokens
         THEN <<system_msg>> \o middle_messages \o <<current_prompt>>
         ELSE DropUntilFits_DropsNewest(system_msg,
                  SubSeq(middle_messages, 1, Len(middle_messages) - 1), current_prompt)

\* the while loop of _truncate_context (lines 129-146): the oldest middle
\* message is popped until the list fits; with no middle message left the
\* system message and the current prompt are returned whatever their size
RECURSIVE DropUntilFits(_, _, _)
DropUntilFits(system_msg, middle_messages, current_prompt) ==
    IF middle_messages = <<>> THEN <<system_msg, current_prompt>>
    ELSE IF CountMessageTokens(<<system_msg>> \o middle_messages \o <<current_prompt>>)
               <= MaxContextTokens
         THEN <<system_msg>> \o middle_messages \o <<current_prompt>>
         ELSE DropUntilFits(system_msg, Tail(middle_messages), current_prompt)

\* ContextManager._truncate_context (lines 108-146)
truncate_context(msgs) ==
    IF Len(msgs) <= 2 THEN msgs
    ELSE DropUntilFits(msgs[1], SubSeq(msgs, 2, Len(msgs) - 1), msgs[Len(msgs)])

\* the message lists build_context assembles (lines 35-63): the system
\* prompt, up to MaxHistory history messages, the round prompt; the sizes
\* are chosen around max_context_tokens
SystemMessages == {[role |-> "system", tokens |-> n] : n \in {500, 99900, 100500}}
HistoryMessages == [role : {"user", "assistant"}, tokens : {20000, 45000, 99400}]
RoundPrompts == {[role |-> "user", tokens |-> 30]}
AssembledContexts ==
    UNION {{<<sm>> \o h \o <<rp>> : sm \in SystemMessages, rp \in RoundPrompts,
                                     h \in [1..n -> HistoryMessages]} : n \in 0..MaxHistory}

TruncationInit ==
    /\ ServiceInit
    /\ message_embeddings = <<>>
    /\ conversation_loops = <<>>
    /\ last_call \in {[op |-> "messages", messages |-> m] : m \in AssembledContexts}

\* build_context from the token count on (lines 65-74)
CountAndTruncate ==
    /\ last_call.op = "messages"
    /\ LET token_count == CountMessageTokens(last_call.messages)
           truncated == IF token_count > MaxContextTokens
                        THEN truncate_context(last_call.messages)
                        ELSE last_call.messages
       IN last_call' = [op |-> "build_context", assembled |-> last_call.messages,
                        messages |-> truncated,
                        token_count |-> CountMessageTokens(truncated)]
    /\ UNCHANGED <<message_embeddings, conversation_loops>>
    /\ UNCHANGED service_vars

TruncationSpec == TruncationInit /\ [][CountAndTruncate]_vars

\* --------------------------------------- EmbeddingService, similar messages
\* message_embeddings joined with messages (lines 213-214): a row is known by
\* its message, its conversation and the cosine similarity of its vector to
\* the query vector, in hundredths (even values, so that halving is exact)
Conversations == {"conv_a", "conv_b"}
Cosines == {-100, 40, 70, 84, 100}
JoinedRows ==
    UNION {{rows \in [1..n -> [message_id : 1..n, conversation_id : Conversations,
                               cosine : Cosines]] :
               \A i \in 1..n : rows[i].message_id = i} : n \in 0..MaxEmbeddings}

\* pgvector's <=> operator: the cosine distance
CosineDistance(row) == 100 - row.cosine

\* the SELECT's similarity column (line 211): 1 - (vector <=> query) / 2
SqlSimilarity(row) == 100 - CosineDistance(row) \div 2

\* the rows the WHERE clause admits (lines 215-216)
Admitted(rows, conversation_id, threshold) ==
    {i \in 1..Len(rows) : /\ rows[i].conversation_id = conversation_id
                          /\ SqlSimilarity(rows[i]) >= threshold}

\* the results ORDER BY distance LIMIT :limit can deliver (lines 217-218):
\* rows at equal distance come in either order
OrderedAndLimited(rows, admitted, limit) ==
    LET size == IF Cardinality(admitted) < limit THEN Cardinality(admitted) ELSE limit
    IN {picked \in [1..size -> admitted] :
           /\ \A a, b \in 1..size : a < b =>
                  /\ picked[a] # picked[b]
                  /\ CosineDistance(rows[picked[a]]) <= CosineDistance(rows[picked[b]])
           /\ \A i \in admitted :
                  (\A a \in 1..size : picked[a] # i) =>
                      \A a \in 1..size :
                          CosineDistance(rows[picked[a]]) <= CosineDistance(rows[i])}

SimilarityInit ==
    /\ ServiceInit
    /\ message_embeddings \in JoinedRows
    /\ conversation_loops = <<>>
    /\ last_call = NoCall

\* EmbeddingService.find_similar_messages (lines 179-243), the (message_id,
\* similarity) tuples it returns
find_similar_messages(conversation_id, threshold, limit) ==
    /\ last_call = NoCall
    /\ \E picked \in OrderedAndLimited(message_embeddings,
               Admitted(message_embeddings, conversation_id, threshold), limit) :
          last_call' = [op |-> "find_similar_messages",
                        conversation_id |-> conversation_id,
                        threshold |-> threshold, limit |-> limit,
                        similar_messages |->
                            [k \in 1..Len(picked) |->
                                [message_id |-> message_embeddings[picked[k]].message_id,
                                 similarity |-> SqlSimilarity(message_embeddings[picked[k]])]]]
    /\ UNCHANGED <<message_embeddings, conversation_loops>>
    /\ UNCHANGED service_vars

\* called with the default threshold 0.85 (line 184, and
\* ContradictionService line 63) and limits that do and do not cut
SimilarityNext ==
    \E conversation_id \in Conversations, limit \in {1, 20} :
        find_similar_messages(conversation_id, SimilarityThreshold, limit)

SimilaritySpec == SimilarityInit /\ [][SimilarityNext]_vars

\* ------------------------------------------ TokenCounter, cost estimation
\* token usages costs are estimated for
TokenUsages == {0, 1000, 10000}

PricingInit ==
    /\ ServiceInit
    /\ message_embeddings = <<>>
    /\ conversation_loops = <<>>
    /\ last_call \in {[op |-> "usage", model |-> m, input_tokens |-> i, output_tokens |-> o] :
                          m \in ModelIds, i \in TokenUsages, o \in TokenUsages}

\* token_counter.estimate_cost(input_tokens, output_tokens, model)
EstimateUsage ==
    /\ last_call.op = "usage"
    /\ last_call' = [op |-> "estimate_cost", model |-> last_call.model,
                     input_tokens |-> last_call.input_tokens,
                     output_tokens |-> last_call.output_tokens,
                     cost |-> estimate_cost(last_call.input_tokens,
                                            last_call.output_tokens, last_call.model)]
    /\ UNCHANGED <<message_embeddings, conversation_loops>>
    /\ UNCHANGED service_vars

PricingSpec == PricingInit /\ [][EstimateUsage]_vars

\* ------------------------------------------------- two overlapping streams
\* a stream whose subscriber closes it on ParticipantComplete, as the frontend
\* does (comment at lines 354-356), with a provider that does not fail
OverlapStep(s) ==
    \/ \E id \in DOMAIN debates : StartNextTurn(s, id)
    \/ FinishAlreadyComplete(s)
    \/ AfterDebateStart(s)
    \/ BuildContext(s)
    \/ ProviderDelta(s)
    \/ ProviderDone(s)
    \/ \E content \in {EmptyText, SomeText} : ClaudeCompletion(s, content)
    \/ AfterClaudeChunk(s)
    \/ gen[s].pc = "yield_participant_complete" /\ Abandon(s)

\* NextTurn requests (debate_v2.py lines 69-129) are served concurrently: a
\* second stream is opened on the debate while the first one has not yet
\* committed its turn; no control operation interferes
OverlapNext ==
    \/ \E config \in Configs : create_debate(config)
    \/ OverlapStep(1)
    \/ /\ gen[2].pc = "idle" => gen[1].pc \notin PostCommitPcs \cup {"idle"}
       /\ OverlapStep(2)

OverlapSpec == Init /\ [][OverlapNext]_vars

\* ---------------------------------------------------- property vocabulary
Last(seq) == seq[Len(seq)]

\* the step appends an event of this type to the stream
Emits(s, type) ==
    /\ Len(events'[s]) = Len(events[s]) + 1
    /\ Last(events'[s]).event_type = type

\* the pointers that follow (t, r) in a debate of P participants
AdvanceOf(t, r, P) ==
    [current_turn |-> (t + 1) % P,
     current_round |-> IF (t + 1) % P = 0 THEN r + 1 ELSE r]

Pointers(d) == [current_turn |-> d.current_turn, current_round |-> d.current_round]

\* the debate object holds the Response of turn (r, t)
Recorded(d, r, t) ==
    /\ r <= Len(d.rounds)
    /\ t + 1 <= Len(d.rounds[r].responses)
    /\ d.rounds[r].responses[t + 1].participant_index = t

\* (r1, t1) comes before (r2, t2)
Before(r1, t1, r2, t2) == r1 < r2 \/ (r1 = r2 /\ t1 < t2)

\* the fields NextTurn on a finished debate and Stop must leave alone
Progress(d) ==
    [rounds |-> d.rounds, current_round |-> d.current_round,
     current_turn |-> d.current_turn, total_tokens |-> d.total_tokens,
     total_cost |-> d.total_cost]

\* the events of a turn, their place in the turn's sequence, and the turn
\* events of a stream in the order emitted
TurnEventTypes ==
    {PARTICIPANT_START, CHUNK, PARTICIPANT_COMPLETE, QUALITY_UPDATE, COST_UPDATE,
     ROUND_COMPLETE, ROUND_START}

Rank(type) ==
    CASE type = PARTICIPANT_START -> 1
      [] type = CHUNK -> 2
      [] type = PARTICIPANT_COMPLETE -> 3
      [] type = QUALITY_UPDATE -> 4
      [] type = COST_UPDATE -> 5
      [] type = ROUND_COMPLETE -> 6
      [] type = ROUND_START -> 7
      [] OTHER -> 0

IsTurnEvent(e) == e.event_type \in TurnEventTypes

TurnTrace(s) == SelectSeq(events[s], IsTurnEvent)

\* a terminal status, or stopped by hand
TerminalOrStopped(d) == d.status \in {COMPLETED, STOPPED, ERROR} \/ d.stopped_manually

\* the stream has emitted an event of this type
Has(s, type) == \E i \in 1..Len(events[s]) : events[s][i].event_type = type

\* the agent names of all Responses of the debate, oldest first
RECURSIVE AllUtterances(_, _)
AllUtterances(d, r) ==
    IF r = 0 THEN <<>>
    ELSE AllUtterances(d, r - 1)
         \o [k \in 1..Len(d.rounds[r].responses) |-> d.rounds[r].responses[k].participant_name]

\* positions of a generator inside the quality integration
QualityPcs ==
    {"yield_participant_complete", "await_contradictions",
     "await_loops", "await_health", "await_session_close", "yield_quality_error"}

\* ------------------------------------------------------------------ claims
\* C1: once a NextTurn stream has committed its turn, started at pointers
\* (t, r) of a debate with P participants, the registry holds
\* current_turn = (t+1) mod P and current_round = r+1 if (t+1) mod P = 0,
\* else r, so the participant on turn is config.participants[(t+1) mod P]
C1_PointersAdvance ==
    \A s \in Streams :
        gen[s].pc \in PostCommitPcs =>
            LET f == gen[s]
                d == Registered(f.debate_id)
                P == NumParticipants(d)
                n == AdvanceOf(f.current_turn_index, f.current_round_num, P)
            IN /\ Pointers(d) = n
               /\ get_current_participant(d)
                      = d.config.participants[((f.current_turn_index + 1) % P) + 1]

\* a stream has committed the last turn of a round of three participants
C1_Witness ==
    \E s \in Streams :
        /\ gen[s].pc = "yield_participant_complete"
        /\ gen[s].current_turn_index = 2
        /\ Registered(gen[s].debate_id).current_turn = 0
        /\ Registered(gen[s].debate_id).current_round = gen[s].current_round_num + 1

\* C2: in every registry state reached by CreateDebate, Stop, Pause, Resume and
\* NextTurn streams that do not overlap, current_turn is the number of
\* responses of rounds[current_round - 1]
C2_TurnCountsResponses ==
    \A id \in DOMAIN debates :
        LET d == Registered(id)
        IN /\ d.current_round \in 1..Len(d.rounds)
           /\ d.current_turn = Len(d.rounds[d.current_round].responses)

\* a debate in its second round with one response in it
C2_Witness ==
    \E id \in DOMAIN debates :
        /\ Registered(id).current_round = 2
        /\ Registered(id).current_turn = 1
        /\ Len(Registered(id).rounds[2].responses) = 1

\* C3: the step that emits ParticipantComplete for turn (r, t) leaves the
\* registry with that turn's Response and the advanced pointers; the registry
\* pointers never move back and a recorded Response is never lost; and a turn
\* is announced by ParticipantStart only while the registry holds no Response
\* for it, so a subscriber leaving on ParticipantComplete never observes or is
\* served (r, t) again
C3_CommitBeforeComplete ==
    [][ /\ \A s \in Streams :
              /\ Emits(s, PARTICIPANT_COMPLETE) =>
                    LET e == Last(events'[s])
                        d == heap'[debates'[gen'[s].debate_id]]
                    IN /\ Recorded(d, e.round_number, e.turn_index)
                       /\ Pointers(d) = AdvanceOf(e.turn_index, e.round_number,
                                                  NumParticipants(d))
              /\ Emits(s, PARTICIPANT_START) =>
                    LET e == Last(events'[s])
                        d == heap'[debates'[gen'[s].debate_id]]
                    IN /\ ~Recorded(d, e.round_number, e.turn_index)
                       /\ d.current_round = e.round_number
                       /\ d.current_turn = e.turn_index
        /\ \A id \in DOMAIN debates :
              LET d == heap[debates[id]]
                  n == heap'[debates'[id]]
              IN /\ ~Before(n.current_round, n.current_turn,
                            d.current_round, d.current_turn)
                 /\ \A r \in 1..Len(d.rounds) :
                       \A t \in 0..(Len(d.rounds[r].responses) - 1) :
                           Recorded(d, r, t) => Recorded(n, r, t)
      ]_vars

\* ParticipantComplete of the second turn has just been emitted, the point at
\* which the subscriber may leave
C3_Witness ==
    \E s \in Streams :
        /\ gen[s].pc = "yield_participant_complete"
        /\ Last(events[s]).event_type = PARTICIPANT_COMPLETE
        /\ Last(events[s]).turn_index = 1
        /\ Recorded(Registered(gen[s].debate_id), Last(events[s]).round_number, 1)

\* C4: the ParticipantStart, Chunk, ParticipantComplete, QualityUpdate,
\* CostUpdate, RoundComplete and RoundStart events of one stream appear in
\* the order ParticipantStart, Chunk*, ParticipantComplete, QualityUpdate*,
\* CostUpdate, then optionally RoundComplete and after it RoundStart; no Chunk
\* comes after ParticipantComplete and no QualityUpdate after CostUpdate
C4_TurnEventOrder ==
    \A s \in Streams :
        LET tr == TurnTrace(s)
            rank(i) == Rank(tr[i].event_type)
        IN /\ tr # <<>> => rank(1) = 1
           /\ \A i \in 1..(Len(tr) - 1) :
                 \/ rank(i + 1) = rank(i) + 1
                 \/ rank(i + 1) = rank(i) /\ tr[i].event_type \in {CHUNK, QUALITY_UPDATE}
                 \/ rank(i) = 1 /\ rank(i + 1) = 3
                 \/ rank(i) = 3 /\ rank(i + 1) = 5
           /\ \A i \in 1..Len(events[s]) : \A j \in (i + 1)..Len(events[s]) :
                 /\ events[s][i].event_type = PARTICIPANT_COMPLETE
                       => events[s][j].event_type # CHUNK
                 /\ events[s][i].event_type = COST_UPDATE
                       => events[s][j].event_type # QUALITY_UPDATE

\* a stream that emitted every event of the sequence, RoundStart included
C4_Witness ==
    \E s \in Streams :
        /\ gen[s].pc = "yield_round_start"
        /\ \A type \in TurnEventTypes :
              \E i \in 1..Len(events[s]) : events[s][i].event_type = type

\* C5: in every stream DebateComplete is emitted at most once and nothing is
\* emitted after it
C5_DebateCompleteLast ==
    \A s \in Streams :
        \A i \in 1..Len(events[s]) :
            events[s][i].event_type = DEBATE_COMPLETE => i = Len(events[s])

\* a stream that ran the last turn of a debate nobody stopped and closed with
\* DebateComplete
C5_Witness ==
    \E s \in Streams :
        /\ Len(events[s]) > 1
        /\ ~Registered(gen[s].debate_id).stopped_manually
        /\ Last(events[s]).event_type = DEBATE_COMPLETE
        /\ \E i \in 1..Len(events[s]) : events[s][i].event_type = PARTICIPANT_COMPLETE

\* C6: while no Stop, Pause, provider error or abandoned stream has touched a
\* debate of R rounds and P participants, it is not Completed before R*P
\* NextTurn invocations, it is Completed with exactly R*P ParticipantComplete
\* events, and its one DebateComplete comes in invocation R*P after the last
\* of them
C6_CleanRunLength ==
    \A id \in DOMAIN debates :
        LET d == Registered(id)
            c == counts[id]
            turns == d.config.max_rounds * NumParticipants(d)
        IN (~c.disturbed /\ turns < MaxCalls) =>
              /\ c.participant_complete <= turns
              /\ c.participant_complete <= c.calls
              /\ c.calls < turns => (d.status # COMPLETED /\ c.debate_complete = 0)
              /\ c.calls <= turns => c.debate_complete <= 1
              /\ c.debate_complete >= 1 =>
                    (c.participant_complete = turns /\ c.calls >= turns)
              /\ d.status = COMPLETED =>
                    (c.participant_complete = turns /\ c.debate_complete >= 1)

\* a two-round debate of two participants, Completed after four invocations
C6_Witness ==
    \E id \in DOMAIN debates :
        /\ ~counts[id].disturbed
        /\ Registered(id).status = COMPLETED
        /\ Registered(id).config.max_rounds = 2
        /\ counts[id].calls = 4
        /\ counts[id].participant_complete = 4
        /\ counts[id].debate_complete = 1

\* C7: NextTurn on a debate in a terminal status or with stopped_manually set
\* emits DebateComplete, carrying the debate's stopped_manually, and nothing
\* else, and leaves rounds, current_round, current_turn, total_tokens and
\* total_cost as they were, so that a repeated call emits the same event
C7_FinishedDebateAnswer ==
    [][ \A s \in Streams :
          /\ (/\ gen[s].pc = "idle"
              /\ gen'[s].pc # "idle"
              /\ TerminalOrStopped(heap[debates[gen'[s].debate_id]])) =>
                LET d == heap[debates[gen'[s].debate_id]]
                    n == heap'[debates'[gen'[s].debate_id]]
                IN /\ gen'[s].pc = "yield_already_complete"
                   /\ Len(events'[s]) = 1
                   /\ events'[s][1].event_type = DEBATE_COMPLETE
                   /\ events'[s][1].data.stopped_manually = d.stopped_manually
                   /\ events'[s][1] = AlreadyCompleteEvent(n)
                   /\ Progress(n) = Progress(d)
          /\ gen[s].pc = "yield_already_complete" =>
                LET d == heap[debates[gen[s].debate_id]]
                    n == heap'[debates'[gen[s].debate_id]]
                IN /\ gen'[s].pc \in {"yield_already_complete", "idle"}
                   /\ events'[s] \in {events[s], <<>>}
                   /\ Progress(n) = Progress(d)
                   /\ gen'[s].pc = "idle" =>
                         AlreadyCompleteEvent(n) = AlreadyCompleteEvent(d)
      ]_vars

\* NextTurn on a manually stopped debate with a recorded response has answered
C7_Witness ==
    \E s \in Streams :
        /\ gen[s].pc = "yield_already_complete"
        /\ Len(events[s]) = 1
        /\ events[s][1].event_type = DEBATE_COMPLETE
        /\ events[s][1].data.stopped_manually
        /\ Len(Registered(gen[s].debate_id).rounds[1].responses) >= 1

\* C8: Stop on a debate whose status is Initialized, Running or Paused sets
\* status Stopped and stopped_manually, leaves rounds, current_round,
\* current_turn, total_tokens and total_cost as they were, and makes
\* is_debate_complete true
C8_StopEffect ==
    [][ \A id \in DOMAIN debates :
          (stop_debate(id) /\ Registered(id).status \in {INITIALIZED, RUNNING, PAUSED}) =>
              LET d == heap[debates[id]]
                  n == heap'[debates'[id]]
              IN /\ n.status = STOPPED
                 /\ n.stopped_manually
                 /\ Progress(n) = Progress(d)
                 /\ is_debate_complete(n)
      ]_vars

\* a debate stopped while its stream waits for the provider
C8_Witness ==
    \E s \in Streams :
        /\ gen[s].pc = "await_provider"
        /\ Registered(gen[s].debate_id).status = STOPPED
        /\ Registered(gen[s].debate_id).stopped_manually

\* C9: Stop on a debate whose status is Completed, Stopped or Error changes no
\* field of the debate
C9_StopOnTerminalIsNoOp ==
    [][ \A id \in DOMAIN debates :
          (stop_debate(id) /\ Registered(id).status \in {COMPLETED, STOPPED, ERROR}) =>
              heap'[debates'[id]] = heap[debates[id]]
      ]_vars

\* C10: Pause sets status Paused when the status is Running and only then;
\* from every other status it raises and leaves the debate unchanged
C10_PauseOnlyFromRunning ==
    [][ \A id \in DOMAIN debates :
          pause_debate(id) =>
              IF Registered(id).status = RUNNING
              THEN heap'[debates'[id]].status = PAUSED /\ ~raised'
              ELSE raised' /\ heap'[debates'[id]] = heap[debates[id]]
      ]_vars

\* C11: Resume sets status Running when the status is Paused and changes
\* nothing else; from every other status it raises and leaves the debate as
\* it was
C11_ResumeOnlyFromPaused ==
    [][ \A id \in DOMAIN debates :
          resume_debate(id) =>
              LET d == heap[debates[id]]
                  n == heap'[debates'[id]]
              IN IF d.status = PAUSED
                 THEN n = [d EXCEPT !.status = RUNNING] /\ ~raised'
                 ELSE n = d /\ raised'
      ]_vars

\* Resume has raised on a debate that is not paused and has a recorded response
C11_Witness ==
    /\ raised
    /\ \E id \in DOMAIN debates :
          /\ Registered(id).status \in DebateStatusV2 \ {PAUSED}
          /\ Registered(id).current_turn = 1

\* C12: a NextTurn invoked while the status is Paused announces no turn: its
\* stream holds no ParticipantStart and the generator does not go on to the
\* provider
C12_PausedRefusesNextTurn ==
    [][ \A s \in Streams :
          (/\ gen[s].pc = "idle"
           /\ gen'[s].pc # "idle"
           /\ heap[debates[gen'[s].debate_id]].status = PAUSED) =>
              /\ gen'[s].pc # "yield_participant_start"
              /\ \A i \in 1..Len(events'[s]) :
                    events'[s][i].event_type # PARTICIPANT_START
      ]_vars

\* C13: once a debate is stopped while its stream waits between provider
\* deltas, at most one more delta of the reply is emitted as a Chunk
C13_StopEndsStreaming ==
    \A s \in Streams : gen[s].chunks_after_stop <= 1

\* C14: the step that reports a failed provider call emits Error with the
\* participant's name as the stream's last event, leaves status Error, and
\* the stream holds no ParticipantComplete; rounds, current_round,
\* current_turn, total_tokens and total_cost stay as they were until the
\* stream ends
C14_ProviderErrorEffect ==
    [][ \A s \in Streams :
          /\ (gen[s].pc = "await_provider" /\ Emits(s, ERROR_EVENT)) =>
                LET d == heap[debates[gen[s].debate_id]]
                    n == heap'[debates'[gen[s].debate_id]]
                IN /\ Last(events'[s]).data.participant_name = gen[s].participant
                   /\ \A i \in 1..Len(events'[s]) :
                         events'[s][i].event_type # PARTICIPANT_COMPLETE
                   /\ Progress(n) = Progress(d)
                   /\ n.status = ERROR
          /\ gen[s].pc = "yield_error" =>
                LET d == heap[debates[gen[s].debate_id]]
                    n == heap'[debates'[gen[s].debate_id]]
                IN /\ events'[s] \in {events[s], <<>>}
                   /\ Progress(n) = Progress(d)
      ]_vars

\* C15: a stream that waits for the provider does not wait forever: every
\* NextTurn stream eventually ends, even when the provider never answers
C15_StreamsTerminate ==
    \A s \in SeqStreams : (gen[s].pc # "idle") ~> (gen[s].pc = "idle")

\* C16: after the commit of a turn the registry's rounds, pointers and totals
\* no longer change; whatever fails in the quality integration, the generator
\* can go on, stays in the stream and passes CostUpdate; and after CostUpdate
\* it emits RoundComplete when the turn closed its round, RoundStart when the
\* debate goes on, and DebateComplete when the debate is complete
C16_QualityFailureHarmless ==
    [][ \A s \in Streams :
          /\ gen[s].pc \in PostCommitPcs =>
                Progress(heap'[debates'[gen[s].debate_id]])
                    = Progress(heap[debates[gen[s].debate_id]])
          /\ gen[s].pc \in QualityPcs => ENABLED DriverStep(s)
          /\ (gen[s].pc \in QualityPcs /\ DriverStep(s)) =>
                /\ gen'[s].pc \in PostCommitPcs
                /\ gen'[s].pc = "yield_cost_update" <=> Emits(s, COST_UPDATE)
          /\ LET f == gen[s]
                 d == heap[f.debate]
             IN /\ AfterCostUpdate(s) =>
                      IF RoundJustCompleted(d, f)
                      THEN Emits(s, ROUND_COMPLETE)
                      ELSE is_debate_complete(d) <=> Emits(s, DEBATE_COMPLETE)
                /\ AfterRoundComplete(s) =>
                      IF is_debate_complete(d)
                      THEN Emits(s, DEBATE_COMPLETE)
                      ELSE Emits(s, ROUND_START)
                /\ AfterRoundStart(s) =>
                      (is_debate_complete(d) <=> Emits(s, DEBATE_COMPLETE))
      ]_vars

\* a stream whose quality integration failed went on to CostUpdate,
\* RoundComplete and DebateComplete
C16_Witness ==
    \E s \in Streams :
        /\ gen[s].pc = "yield_debate_complete"
        /\ \E i \in 1..Len(events[s]) :
              /\ events[s][i].event_type = ERROR_EVENT
              /\ events[s][i].data.non_critical
        /\ Has(s, COST_UPDATE)
        /\ Has(s, ROUND_COMPLETE)
        /\ ~Registered(gen[s].debate_id).stopped_manually

\* C17: a step of the quality integration in which a store operation fails
\* (session or conversation, utterance insert, loop insert, health sample
\* insert, final commit) emits an Error event with non_critical set
C17_StoreFailureSurfaced ==
    [][ \A s \in Streams :
          (\/ PersistUtterance(s, "session_failed")
           \/ PersistUtterance(s, "insert_failed")
           \/ CheckLoops(s, FALSE)
           \/ ScoreHealth(s, FALSE)
           \/ CloseSession(s, FALSE)) =>
              /\ Emits(s, ERROR_EVENT)
              /\ Last(events'[s]).data.non_critical
      ]_vars

\* C18: in every registry state total_cost is the sum of the rounds'
\* cost_estimate
C18_TotalCostIsSumOfRounds ==
    \A id \in DOMAIN debates :
        LET d == Registered(id)
        IN d.total_cost = SumSeq([r \in 1..Len(d.rounds) |-> d.rounds[r].cost_estimate])

\* a debate with costs in two rounds
C18_Witness ==
    \E id \in DOMAIN debates :
        /\ Len(Registered(id).rounds) >= 2
        /\ Registered(id).rounds[1].cost_estimate > 0
        /\ Registered(id).rounds[2].cost_estimate > 0

\* C19: in every registry state reached with one stream at a time, no round
\* has more than P responses, every round but the last has exactly P, and the
\* k-th response of a round has participant_index k-1
C19_RoundsFilledInOrder ==
    \A id \in DOMAIN debates :
        LET d == Registered(id)
            P == NumParticipants(d)
        IN \A r \in 1..Len(d.rounds) :
              /\ Len(d.rounds[r].responses) <= P
              /\ r < Len(d.rounds) => Len(d.rounds[r].responses) = P
              /\ \A k \in 1..Len(d.rounds[r].responses) :
                    d.rounds[r].responses[k].participant_index = k - 1

\* a full first round of three participants
C19_Witness ==
    \E id \in DOMAIN debates :
        /\ NumParticipants(Registered(id)) = 3
        /\ Len(Registered(id).rounds) = 2
        /\ Len(Registered(id).rounds[1].responses) = 3

\* C20: once current_round has passed max_rounds the debate holds max_rounds
\* rounds, and the DebateComplete that closes the last turn of a debate nobody
\* stopped reports rounds_completed = max_rounds
C20_NoRoundPastTheLast ==
    /\ \A id \in DOMAIN debates :
          LET d == Registered(id)
          IN d.current_round > d.config.max_rounds => Len(d.rounds) = d.config.max_rounds
    /\ \A s \in Streams :
          (gen[s].pc = "yield_debate_complete"
              /\ ~Registered(gen[s].debate_id).stopped_manually) =>
             Last(events[s]).data.rounds_completed
                 = Registered(gen[s].debate_id).config.max_rounds

\* C21: in a stream with no Stop, the step after CostUpdate emits
\* RoundComplete(n) iff the turn just run was the P-th response of round n,
\* and the event reports responses_count = P; the step after RoundComplete
\* emits RoundStart(n+1) iff n < max_rounds; RoundStart only ever follows
\* RoundComplete directly and never names a round past max_rounds
C21_RoundEvents ==
    [][\A s \in SeqStreams :
          LET f == gen[s]
              d == heap[f.debate]
              P == NumParticipants(d)
              e == Last(events'[s])
          IN
          /\ (AfterCostUpdate(s) /\ ~d.stopped_manually) =>
                /\ Emits(s, ROUND_COMPLETE) <=> f.current_turn_index = P - 1
                /\ Emits(s, ROUND_COMPLETE) =>
                      /\ e.round_number = f.current_round_num
                      /\ e.data.round_number = f.current_round_num
                      /\ e.data.responses_count = P
          /\ (AfterRoundComplete(s) /\ ~d.stopped_manually) =>
                /\ Emits(s, ROUND_START) <=> f.current_round_num < d.config.max_rounds
                /\ Emits(s, ROUND_START) =>
                      /\ e.data.round_number = f.current_round_num + 1
                      /\ e.data.max_rounds = d.config.max_rounds
          /\ (Emits(s, ROUND_START) /\ ~d.stopped_manually) =>
                /\ Last(events[s]).event_type = ROUND_COMPLETE
                /\ e.data.round_number <= d.config.max_rounds
      ]_vars

\* RoundComplete(1) then RoundStart(2) have been emitted in a two-round
\* debate that was not stopped
C21_Witness ==
    \E s \in SeqStreams :
        /\ gen[s].pc = "yield_round_start"
        /\ ~heap[gen[s].debate].stopped_manually
        /\ heap[gen[s].debate].config.max_rounds = 2
        /\ Len(events[s]) >= 2
        /\ events[s][Len(events[s]) - 1].event_type = ROUND_COMPLETE
        /\ events[s][Len(events[s]) - 1].data.responses_count
              = NumParticipants(heap[gen[s].debate])
        /\ Last(events[s]).event_type = ROUND_START
        /\ Last(events[s]).data.round_number = 2

\* C22: the Utterance persisted for the turn at (current_round = r,
\* current_turn = t) of a debate with P participants carries
\* sequence_number (r-1)*P + t, so the first Utterance of a debate has
\* sequence_number 0
C22_SequenceNumberFromZero ==
    \A i \in 1..Len(messages) :
        \A id \in DOMAIN debates :
            debate_to_conversation[id] = messages[i].conversation_id =>
                messages[i].sequence_number
                    = (messages[i].round_number - 1) * NumParticipants(Registered(id))
                      + messages[i].turn_index

\* C23: whenever no stream is running, the number of persisted Utterances of
\* a debate equals the total number of Responses over all its rounds, also
\* after a subscriber closed the stream on ParticipantComplete and after
\* turns whose store step failed
C23_UtterancePerResponse ==
    (\A s \in SeqStreams : gen[s].pc = "idle") =>
        \A id \in DOMAIN debates :
            Cardinality({i \in 1..Len(messages) :
                            /\ id \in DOMAIN debate_to_conversation
                            /\ messages[i].conversation_id = debate_to_conversation[id]})
                = SequenceNumber(Registered(id))

\* C25: the Loop Detector is run only when the sequence_number of the
\* utterance just persisted is a positive multiple of 3, and it is run over
\* the last min(10, N) utterances of the whole debate, oldest first, across
\* round boundaries
C25_LoopCheckOverWholeDebate ==
    \A s \in SeqStreams :
        gen[s].pc = "await_loops" =>
            LET d == heap[gen[s].debate]
            IN /\ gen[s].sequence_number > 0
               /\ gen[s].sequence_number % LoopCheckInterval = 0
               /\ LoopCheckInput(d, gen[s])
                     = LastN(AllUtterances(d, Len(d.rounds)), LoopWindow)

\* C26: a Debate object obtained from the registry before a turn commits is
\* not changed by the commit of that turn: while the registry entry is
\* replaced, the object the caller holds keeps its rounds, responses, totals
\* and pointers
C26_SnapshotUnchangedByCommit ==
    [][\A c \in Callers :
          (gen[c].pc = "holding" /\ debates'[gen[c].debate_id] # debates[gen[c].debate_id]) =>
              /\ gen[c].debate \in DOMAIN heap'
              /\ Progress(heap'[gen[c].debate]) = Progress(heap[gen[c].debate])
      ]_vars

\* C30: a NextTurn invoked on a debate that is in a terminal status never
\* changes that status, neither when it is started nor when it is resumed
\* after its DebateComplete: Error stays Error, Stopped stays Stopped and
\* Completed stays Completed
C30_TerminalStatusKept ==
    [][\A s \in SeqStreams : \A id \in DOMAIN debates :
          (/\ gen[s].pc \in {"idle", "yield_already_complete"}
           /\ gen'[s] # gen[s]
           /\ Registered(id).status \in {COMPLETED, STOPPED, ERROR}) =>
              heap'[debates'[id]].status = Registered(id).status
      ]_vars

\* C29: a create_debate step registers, under an id that was not in the
\* registry, a debate with status Initialized, current_round 1,
\* current_turn 0, exactly one round which is empty, empty total_tokens and
\* total_cost 0; GetDebate(id) returns that debate afterwards, and the
\* debates already in the registry are unchanged
C29_CreateDebateResult ==
    [][DOMAIN debates' # DOMAIN debates =>
          \E id \in DOMAIN debates' :
              LET d == heap'[debates'[id]] IN
              /\ DOMAIN debates' = DOMAIN debates \cup {id}
              /\ id \notin DOMAIN debates
              /\ d.id = id
              /\ d.config \in Configs
              /\ d.status = INITIALIZED
              /\ d.current_round = 1
              /\ d.current_turn = 0
              /\ Len(d.rounds) = 1
              /\ d.rounds[1].round_number = 1
              /\ d.rounds[1].responses = <<>>
              /\ d.total_tokens = EmptyMap
              /\ d.total_cost = 0
              /\ ~d.stopped_manually
              /\ \A other \in DOMAIN debates :
                    /\ debates'[other] = debates[other]
                    /\ heap'[debates'[other]] = heap[debates[other]]
      ]_vars

\* a second debate has been created beside one that was paused or stopped
\* before
C29_Witness ==
    /\ Cardinality(DOMAIN debates) = 2
    /\ Registered(RegistryIds[1]).status \in {PAUSED, STOPPED}
    /\ Registered(RegistryIds[2]).status = INITIALIZED
    /\ Len(Registered(RegistryIds[2]).rounds) = 1
    /\ Registered(RegistryIds[2]).config # Registered(RegistryIds[1]).config

\* C24: every detection of the quality pipeline is surfaced in the turn's
\* stream before CostUpdate: when CostUpdate has been emitted the stream
\* holds one QualityUpdate of kind contradiction per contradiction the
\* Contradiction Detector returned, and one of kind loop if the Loop Detector
\* returned a loop
C24_DetectionsSurfaced ==
    \A s \in SeqStreams :
        gen[s].pc = "yield_cost_update" =>
            /\ Cardinality({i \in 1..Len(events[s]) :
                              /\ events[s][i].event_type = QUALITY_UPDATE
                              /\ events[s][i].data.quality_type = "contradiction"})
                  = gen[s].contradictions
            /\ Cardinality({i \in 1..Len(events[s]) :
                              /\ events[s][i].event_type = QUALITY_UPDATE
                              /\ events[s][i].data.quality_type = "loop"})
                  = IF gen[s].loop THEN 1 ELSE 0

C28_LoopDetectorIdempotent ==
    [][\A recent \in RecentInputs, stored \in BOOLEAN :
          (/\ last_call.op = "detect_loops"
           /\ last_call.recent_messages = recent
           /\ ~last_call.raised
           /\ RunLoopDetector(DebateIds[1], recent, stored)) =>
              conversation_loops' = conversation_loops
      ]_vars

\* C31: Loop Detector pattern selection. For a speaker sequence of n
\* utterances detect_loops returns none when n < 4; otherwise, with the
\* lengths L from min(n div 2, 6) down to 2, it returns a loop for the largest
\* L at which some L-tuple of consecutive speakers occurs at least twice among
\* the sliding windows, and none when there is no such L; the pattern is the
\* most frequent L-tuple, the earliest-occurring one on ties, and
\* repetition_count is its number of occurrences, at least 2
C31_PatternSelection ==
    (last_call.op = "detect_loops" /\ ~last_call.raised) =>
        LET S == last_call.recent_messages
            n == Len(S)
            loop == last_call.returned
            Tuple(i, L) == [k \in 1..L |-> S[i + k - 1]]
            Count(t, L) == Cardinality({i \in 1..(n - L + 1) : Tuple(i, L) = t})
            First(t, L) == CHOOSE i \in 1..(n - L + 1) :
                              /\ Tuple(i, L) = t
                              /\ \A j \in 1..(i - 1) : Tuple(j, L) # t
            Tried == {L \in 2..6 : L <= n \div 2}
            Repeating == {L \in Tried : \E i \in 1..(n - L + 1) : Count(Tuple(i, L), L) >= 2}
        IN IF n < 4 \/ Repeating = {}
           THEN loop = NoLoop
           ELSE LET L == CHOOSE K \in Repeating : \A M \in Repeating : M <= K
                IN /\ loop # NoLoop
                   /\ Len(loop.pattern) = L
                   /\ loop.repetition_count = Count(loop.pattern, L)
                   /\ loop.repetition_count >= 2
                   /\ \A j \in 1..(n - L + 1) :
                         /\ Count(Tuple(j, L), L) <= loop.repetition_count
                         /\ Count(Tuple(j, L), L) = loop.repetition_count
                               => First(loop.pattern, L) <= j

\* a loop was returned for a length below the longest one tried, and another
\* tuple of that length occurs equally often
C31_Witness ==
    /\ last_call.op = "detect_loops"
    /\ ~last_call.raised
    /\ last_call.returned # NoLoop
    /\ LET S == last_call.recent_messages
           L == Len(last_call.returned.pattern)
       IN /\ L < Len(S) \div 2
          /\ L < 6
          /\ \E j \in 1..(Len(S) - L + 1) :
                /\ SubSeq(S, j, j + L - 1) # last_call.returned.pattern
                /\ Cardinality({i \in 1..(Len(S) - L + 1) :
                       SubSeq(S, i, i + L - 1) = SubSeq(S, j, j + L - 1)})
                      = last_call.returned.repetition_count

\* C32: the message_ids of a returned Loop are the order-preserving union of
\* the message ids covered by the occurrences of the accepted pattern: every
\* covered message id appears exactly once, in conversation order, and no
\* other id appears, also when occurrences overlap
C32_MessageIdsAreUnion ==
    (last_call.op = "detect_loops" /\ last_call.returned # NoLoop) =>
        LET S == last_call.recent_messages
            loop == last_call.returned
            L == Len(loop.pattern)
            Covered == {k \in 1..Len(S) :
                          \E i \in 1..(Len(S) - L + 1) :
                              /\ SubSeq(S, i, i + L - 1) = loop.pattern
                              /\ k \in i..(i + L - 1)}
            ids == loop.message_ids
        IN /\ {ids[k] : k \in 1..Len(ids)} = Covered
           /\ \A k \in 1..(Len(ids) - 1) : ids[k] < ids[k + 1]

\* C33: the transcript handed to the provider for a turn holds only the
\* responses of the last context_window_rounds rounds of the debate, in
\* chronological order: no response of an older round is in it
C33_ContextWindow ==
    last_call.op = "_build_context_for_participant" =>
        LET d == Registered(last_call.debate_id)
            oldest == Len(d.rounds) - d.config.context_window_rounds + 1
            lines == last_call.transcript
        IN /\ \A k \in 1..Len(lines) : lines[k].round_number >= oldest
           /\ \A k \in 1..(Len(lines) - 1) :
                 lines[k].round_number <= lines[k + 1].round_number
           /\ \A r \in 1..Len(d.rounds) :
                 r >= oldest =>
                     Cardinality({k \in 1..Len(lines) : lines[k].round_number = r})
                         = Len(d.rounds[r].responses)

\* C34: context truncation. For a message list whose token count exceeds
\* max_context_tokens the assembled context starts with the system message
\* and ends with the final user prompt, the history kept is a contiguous
\* suffix of the original history and the longest one that fits (only the
\* oldest messages are dropped, no more than needed), and the token count
\* returned is that of the context and is within max_context_tokens whenever
\* the system message and the final prompt alone are
C34_TruncationKeepsEnds ==
    (/\ last_call.op = "build_context"
     /\ CountMessageTokens(last_call.assembled) > MaxContextTokens) =>
        LET given == last_call.assembled
            kept == last_call.messages
            n == Len(given)
            Tokens(msgs) == SumSeq([k \in 1..Len(msgs) |-> 5 + msgs[k].tokens]) + 2
            From(j) == <<given[1]>> \o SubSeq(given, j, n - 1) \o <<given[n]>>
        IN /\ kept[1] = given[1]
           /\ Last(kept) = given[n]
           /\ \E j \in 2..n :
                 /\ kept = From(j)
                 /\ \A i \in 2..(j - 1) : Tokens(From(i)) > 100000
           /\ last_call.token_count = Tokens(kept)
           /\ Tokens(<<given[1], given[n]>>) <= 100000 => last_call.token_count <= 100000

\* a context was truncated: part of its history was dropped, part of it kept
C34_Witness ==
    /\ last_call.op = "build_context"
    /\ CountMessageTokens(last_call.assembled) > MaxContextTokens
    /\ Len(last_call.messages) > 2
    /\ Len(last_call.messages) < Len(last_call.assembled)
    /\ last_call.token_count <= MaxContextTokens

\* C35: find_similar_messages returns exactly the embeddings of the
\* conversation whose cosine similarity to the query is at least the
\* threshold (none below it, so none below 0.85 at threshold 0.85), ordered
\* by descending similarity and capped at limit, and the similarity reported
\* for a candidate is its cosine similarity
C35_FindSimilarByCosine ==
    last_call.op = "find_similar_messages" =>
        LET rows == message_embeddings
            found == last_call.similar_messages
            Row(k) == rows[found[k].message_id]
            Qualifying == {i \in 1..Len(rows) :
                              /\ rows[i].conversation_id = last_call.conversation_id
                              /\ rows[i].cosine >= last_call.threshold}
        IN /\ \A k \in 1..Len(found) :
                 /\ found[k].message_id \in Qualifying
                 /\ found[k].similarity = Row(k).cosine
           /\ \A a, b \in 1..Len(found) :
                 a < b => /\ found[a].message_id # found[b].message_id
                          /\ Row(a).cosine >= Row(b).cosine
           /\ Len(found) = IF Cardinality(Qualifying) < last_call.limit
                           THEN Cardinality(Qualifying) ELSE last_call.limit
           /\ \A i \in Qualifying :
                 (\A k \in 1..Len(found) : found[k].message_id # i) =>
                     \A k \in 1..Len(found) : Row(k).cosine >= rows[i].cosine

\* C36: estimate_cost prices a model whose identifier is exactly a key of the
\* price table with that key's own input and output prices, for every key,
\* also a key that contains another key; an identifier that matches no key
\* is priced with the default, the prices of gpt-4o
C36_ExactKeyOwnPrice ==
    last_call.op = "estimate_cost" =>
        LET Keys == {PRICING[i].model_key : i \in 1..Len(PRICING)}
            Own(key) == CHOOSE i \in 1..Len(PRICING) : PRICING[i].model_key = key
            Priced(i) == last_call.cost = last_call.input_tokens * PRICING[i].input
                                          + last_call.output_tokens * PRICING[i].output
        IN /\ last_call.model \in Keys => Priced(Own(last_call.model))
           /\ MatchingKeys(last_call.model) = {} => Priced(Own("gpt-4o"))

\* C37: with two NextTurn streams opened on a debate before either has
\* committed its turn, under any interleaving, no round of the registered
\* debate holds more responses than there are participants or two responses
\* of one participant_index, and current_turn equals the number of responses
\* in the current round
C37_OverlapKeepsRounds ==
    \A id \in DOMAIN debates :
        LET d == Registered(id) IN
        /\ \A r \in 1..Len(d.rounds) :
              /\ Len(d.rounds[r].responses) <= Len(d.config.participants)
              /\ \A a, b \in 1..Len(d.rounds[r].responses) :
                    a # b => d.rounds[r].responses[a].participant_index
                                # d.rounds[r].responses[b].participant_index
        /\ d.current_round <= Len(d.rounds) =>
              d.current_turn = Len(d.rounds[d.current_round].responses)

\* C38: completion is permanent: once is_debate_complete holds for a debate
\* it holds in every later state, whatever Stop, Pause, Resume and NextTurn
\* do, and no NextTurn stream opened on a complete debate emits
\* ParticipantStart or appends a Response
C38_CompletionPermanent ==
    [][\A id \in DOMAIN debates :
          is_debate_complete(heap[debates[id]]) =>
              /\ is_debate_complete(heap'[debates'[id]])
              /\ \A s \in SeqStreams :
                    StartNextTurn(s, id) =>
                        /\ ~Emits(s, PARTICIPANT_START)
                        /\ heap'[debates'[id]].rounds = heap[debates[id]].rounds
      ]_vars

\* C39: in every state in which no NextTurn stream of the debate is in
\* execution, a debate with stopped_manually set has status Stopped: a
\* debate stopped while a turn was in flight does not end up Completed, and
\* a later Pause does not leave it Paused
C39_StoppedStaysStopped ==
    \A id \in DOMAIN debates :
        (/\ \A s \in SeqStreams : gen[s].pc = "idle" \/ gen[s].debate_id # id
         /\ Registered(id).stopped_manually) =>
            Registered(id).status = STOPPED

\* C40: DebateStart is emitted exactly once over the lifetime of a debate, in
\* the stream of the first NextTurn that runs a turn and ahead of that
\* stream's ParticipantStart, whatever Pause and Resume calls came before; and
\* a NextTurn that runs a turn runs it with the debate in status Running
C40_DebateStartOnce ==
    [][\A s \in SeqStreams, id \in DOMAIN debates :
          (StartNextTurn(s, id) /\ ~is_debate_complete(heap[debates[id]])) =>
              /\ counts'[id].debate_start = 1
              /\ counts[id].debate_start = 0 =>
                    events'[s][1].event_type = DEBATE_START
              /\ heap'[debates'[id]].status = RUNNING
      ]_vars

====
